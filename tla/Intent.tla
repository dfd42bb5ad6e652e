------------------------------- MODULE Intent --------------------------------
(***************************************************************************)
(* What the assistant makes of a question (src/server/ai/intent.ts and     *)
(* retrieval.ts 40-45) and which answers it accepts (validation.ts).  A    *)
(* question is the set of signals its text carries, one for each list of   *)
(* terms or expression the code looks for.                                 *)
(***************************************************************************)
EXTENDS Integers, SequencesExt

\* refers, continues: it begins as the follow-ups of analyzeIntent, of
\* resolveFollowUpQuery do; long: over 120 characters; bare: just "what policy".
Signals ==
    {"unsafe", "capability", "bare", "comparison", "policy", "specificPolicy", "external", "refers", "continues",
     "workflow", "action", "sensitive", "code", "dataAnalysis", "metric", "extraction", "summarization", "meeting",
     "recommendation", "search", "long", "multiStep"}

NoQuestion == {"none"}

\* "previous. Follow-up: question" is two sentences, and no bare question.
Joined(question, previous) == (question \cup previous \cup {"multiStep"}) \ {"bare"}

resolveFollowUpQuery(question, previous) ==
    IF previous # NoQuestion /\ "continues" \in question /\ "long" \notin question
    THEN Joined(question, previous) ELSE question

Analysis(intent, task, responseType, complexity, risk, mode) ==
    [intent |-> intent, task |-> task, responseType |-> responseType, complexity |-> complexity,
     risk |-> risk, mode |-> mode, clarify |-> responseType = "clarification"]

Clarification(complexity) == Analysis("question", "enterprise_qa", "clarification", complexity, "low", "internal")

\* The first rule that applies decides.
analyzeIntent(question, previous) ==
    LET followUp == previous # NoQuestion /\ "refers" \in question
        q        == IF followUp THEN Joined(question, previous) ELSE question
        depth    == IF "multiStep" \in q THEN "complex" ELSE "moderate"
        involved == "long" \in q \/ "multiStep" \in q
        rules ==
          <<<<"unsafe" \in q,
                Analysis("action_request", "agent_planning", "insufficient_evidence", "complex", "critical", "internal")>>,
            <<"capability" \in q, Analysis("capability", "simple_qa", "direct_answer", "simple", "low", "internal")>>,
            <<"bare" \in q, Clarification("simple")>>,
            <<{"comparison", "policy"} \subseteq q /\ "specificPolicy" \notin q, Clarification("moderate")>>,
            <<"external" \in q, Analysis("external_research", "web_research", "analysis", "complex", "medium", "web")>>,
            <<previous = NoQuestion /\ "refers" \in q, Clarification("moderate")>>,
            <<"workflow" \in q \/ "action" \in q,
                Analysis(IF "workflow" \in q THEN "workflow_request" ELSE "action_request", "agent_planning", "action_plan",
                         depth, IF "sensitive" \in q THEN "high" ELSE "medium", "mixed")>>,
            <<"code" \in q, Analysis("analysis", "code", "analysis", depth, "low", "mixed")>>,
            <<"dataAnalysis" \in q,
                Analysis("data_analysis", "structured_analysis", "table", depth, "medium", "structured")>>,
            <<"comparison" \in q,
                Analysis("comparison", "complex_reasoning", "comparison", "complex", "medium", "internal")>>,
            <<"extraction" \in q, Analysis("extraction", "extraction", "extraction", depth, "low", "internal")>>,
            <<"summarization" \in q, Analysis("summarization", "summarization", "summary", "simple", "low", "internal")>>,
            <<"meeting" \in q,
                Analysis("meeting_request", "enterprise_qa", "direct_answer", "moderate", "medium", "internal")>>,
            <<"recommendation" \in q,
                Analysis("recommendation", IF "multiStep" \in q THEN "complex_reasoning" ELSE "enterprise_qa",
                         "recommendation", depth, "medium", "mixed")>>,
            <<TRUE, Analysis(IF "search" \in q THEN "search" ELSE "question",
                             IF involved THEN "complex_reasoning" ELSE "enterprise_qa", "direct_answer",
                             IF involved THEN "complex" ELSE "moderate", "low", "internal")>>>>
    IN rules[SelectInSeq(rules, LAMBDA rule : rule[1])][2]

\* What the request asks for overrides what the question suggests.
Analyze(question, previous, request) ==
    LET analyzed == analyzeIntent(question, previous)
    IN [analyzed EXCEPT
           !.mode = IF request.mode = "any" THEN @ ELSE request.mode,
           !.responseType = CASE request.format = "table" -> "table"
                              [] request.format \in {"bullets", "short", "email"} -> "direct_answer"
                              [] OTHER -> @]

-----------------------------------------------------------------------------
(* Answers: "safe" says that evidence is missing, "table" holds a "|",
   "long" is over 50,000 characters *)

\* Bug: an answer without evidence passes whatever it says.
AcceptsUngrounded(analysis, citations, structured, answer) ==
    /\ answer # "long"
    /\ analysis.responseType = "table" => structured \/ answer = "table"
    /\ \A c, d \in citations : c.id = d.id => c = d

\* validateGeneration
Accepts(analysis, citations, structured, answer) ==
    LET safe == \/ analysis.intent = "capability"
                \/ analysis.responseType \in {"clarification", "insufficient_evidence"}
                \/ answer = "safe"
    IN /\ answer # "long"
       /\ analysis.mode = "internal" /\ citations = {} /\ ~structured => safe
       /\ analysis.responseType = "table" => structured \/ answer = "table"
       /\ \A c, d \in citations : c.id = d.id => c = d

\* DevelopmentGroundedProvider.complete: what it may say.
GroundedAnswers(analysis, citations, structured) ==
    CASE analysis.responseType = "clarification" \/ analysis.intent = "capability" -> {"plain"}
      [] structured      -> {"table"}
      [] citations = {}  -> {"safe"}
      [] OTHER           -> {"plain", "safe", "table"}
=============================================================================
