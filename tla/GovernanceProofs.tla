-------------------------- MODULE GovernanceProofs --------------------------
(***************************************************************************)
(* Proofs about what users may do, for any numbers of requests, users,     *)
(* documents, keys, decisions' calls and sessions: Decisions, Sessions,    *)
(* Approvals and GovernedActions, which share no state.                    *)
(*                                                                         *)
(* DInv says what is true of a call at each of its statements whatever     *)
(* the others do, and what is true besides when calls do not overlap.      *)
(* SInv counts the logins that still verify a password beside the guesses. *)
(* AInv is inductive for the approvals alone, because a row is locked from *)
(* the test of its status to its write.  GInv adds what the calls know:    *)
(* the approval a call has asserted cannot be withdrawn, since an approved *)
(* verdict is final.                                                       *)
(***************************************************************************)
EXTENDS GovernedActions, Sessions, Decisions, FiniteSetTheorems, SequenceTheorems, TLAPS

\* Decisions.

\* The statements of an operation, and which follows which.
Lists(op, s) ==
    \/ op = "create" /\ s \in {"create", "remember"}
    \/ op = "approve" /\ s = "approve"
    \/ op = "act" /\ s \in {"assert", "mayAct", "reassert", "execute", "attach", "finish"}
    \/ op = "outcome" /\ s \in {"mayMeasure", "measure", "settle", "remember"}
    \/ op = "tool" /\ s \in {"assert", "log", "reassert", "execute", "report"}
    \/ op = "unconfirmed" /\ s \in {"assert", "defer"}
    \/ op = "gap" /\ s \in {"log", "gap", "report"}

Follows(op, s, t) ==
    \/ op = "create" /\ ((s = "create" /\ t = "remember") \/ (s = "remember" /\ t = "done"))
    \/ op = "approve" /\ s = "approve" /\ t = "done"
    \/ op = "act" /\ ((s = "assert" /\ t = "mayAct") \/ (s = "mayAct" /\ t = "reassert") \/
                      (s = "reassert" /\ t = "execute") \/ (s = "execute" /\ t = "attach") \/
                      (s = "attach" /\ t = "finish") \/ (s = "finish" /\ t = "done"))
    \/ op = "outcome" /\ ((s = "mayMeasure" /\ t = "measure") \/ (s = "measure" /\ t = "settle") \/
                          (s = "settle" /\ t = "remember") \/ (s = "remember" /\ t = "done"))
    \/ op = "tool" /\ ((s = "assert" /\ t = "log") \/ (s = "log" /\ t = "reassert") \/
                       (s = "reassert" /\ t = "execute") \/ (s = "execute" /\ t = "report") \/
                       (s = "report" /\ t = "done"))
    \/ op = "unconfirmed" /\ ((s = "assert" /\ t = "defer") \/ (s = "defer" /\ t = "done"))
    \/ op = "gap" /\ ((s = "log" /\ t = "gap") \/ (s = "gap" /\ t = "report") \/
                      (s = "report" /\ t = "done"))

\* A call goes on with the statement that follows.
LEMMA Onward ==
    ASSUME NEW c, NEW s, Lists(request[c].op, s), Run(c, s)
    PROVE  /\ step[c] = s /\ UNCHANGED <<faults, request>>
           /\ \E t : Follows(request[c].op, s, t) /\ step' = [step EXCEPT ![c] = t]
<1> DEFINE op == request[c].op
           code == Program[op]
           i == CHOOSE j \in DOMAIN code : code[j] = s
           t == IF i = Len(code) THEN "done" ELSE code[i + 1]
<1>1. step[c] = s /\ UNCHANGED <<faults, request>> /\ step' = [step EXCEPT ![c] = t] BY DEF Run
<1>2. i \in DOMAIN code /\ code[i] = s
  <2>1. \E j \in DOMAIN code : code[j] = s
    <3>1. CASE op = "create"
      <4>1. code = <<"create", "remember">> BY <3>1 DEF Program
      <4> QED BY <3>1, <4>1 DEF Lists
    <3>2. CASE op = "approve"
      <4>1. code = <<"approve">> BY <3>2 DEF Program
      <4> QED BY <3>2, <4>1 DEF Lists
    <3>3. CASE op = "act"
      <4>1. code = <<"assert", "mayAct", "reassert", "execute", "attach", "finish">> BY <3>3 DEF Program
      <4> QED BY <3>3, <4>1 DEF Lists
    <3>4. CASE op = "outcome"
      <4>1. code = <<"mayMeasure", "measure", "settle", "remember">> BY <3>4 DEF Program
      <4> QED BY <3>4, <4>1 DEF Lists
    <3>5. CASE op = "tool"
      <4>1. code = <<"assert", "log", "reassert", "execute", "report">> BY <3>5 DEF Program
      <4> QED BY <3>5, <4>1 DEF Lists
    <3>6. CASE op = "unconfirmed"
      <4>1. code = <<"assert", "defer">> BY <3>6 DEF Program
      <4> QED BY <3>6, <4>1 DEF Lists
    <3>7. CASE op = "gap"
      <4>1. code = <<"log", "gap", "report">> BY <3>7 DEF Program
      <4> QED BY <3>7, <4>1 DEF Lists
    <3> QED BY <3>1, <3>2, <3>3, <3>4, <3>5, <3>6, <3>7 DEF Lists
  <2> QED BY <2>1
<1> HIDE DEF i, code
<1>3. Follows(op, s, t)
  <2>1. CASE op = "create"
    <3>1. code = <<"create", "remember">> BY <2>1 DEF code, Program
    <3> QED BY <1>2, <2>1, <3>1 DEF Follows
  <2>2. CASE op = "approve"
    <3>1. code = <<"approve">> BY <2>2 DEF code, Program
    <3> QED BY <1>2, <2>2, <3>1 DEF Follows
  <2>3. CASE op = "act"
    <3>1. code = <<"assert", "mayAct", "reassert", "execute", "attach", "finish">> BY <2>3 DEF code, Program
    <3> QED BY <1>2, <2>3, <3>1 DEF Follows
  <2>4. CASE op = "outcome"
    <3>1. code = <<"mayMeasure", "measure", "settle", "remember">> BY <2>4 DEF code, Program
    <3> QED BY <1>2, <2>4, <3>1 DEF Follows
  <2>5. CASE op = "tool"
    <3>1. code = <<"assert", "log", "reassert", "execute", "report">> BY <2>5 DEF code, Program
    <3> QED BY <1>2, <2>5, <3>1 DEF Follows
  <2>6. CASE op = "unconfirmed"
    <3>1. code = <<"assert", "defer">> BY <2>6 DEF code, Program
    <3> QED BY <1>2, <2>6, <3>1 DEF Follows
  <2>7. CASE op = "gap"
    <3>1. code = <<"log", "gap", "report">> BY <2>7 DEF code, Program
    <3> QED BY <1>2, <2>7, <3>1 DEF Follows
  <2> QED BY <2>1, <2>2, <2>3, <2>4, <2>5, <2>6, <2>7 DEF Lists
<1> QED BY <1>1, <1>3 DEF i, code

\* What EXCEPT makes of the row.
LEMMA RowExcept ==
    ASSUME NEW A, NEW B, NEW C, NEW D, NEW E, NEW F, NEW G, NEW H, NEW I,
           NEW r \in [status : A, maker : B, action : C, execution : D, outcome : E, tool : F, gaps : G,
                      memories : H, halted : I],
           NEW x
    PROVE  /\ [r EXCEPT !.status = x] = [status |-> x, maker |-> r.maker, action |-> r.action,
                  execution |-> r.execution, outcome |-> r.outcome, tool |-> r.tool, gaps |-> r.gaps,
                  memories |-> r.memories, halted |-> r.halted]
           /\ [r EXCEPT !.maker = x] = [status |-> r.status, maker |-> x, action |-> r.action,
                  execution |-> r.execution, outcome |-> r.outcome, tool |-> r.tool, gaps |-> r.gaps,
                  memories |-> r.memories, halted |-> r.halted]
           /\ [r EXCEPT !.action = x] = [status |-> r.status, maker |-> r.maker, action |-> x,
                  execution |-> r.execution, outcome |-> r.outcome, tool |-> r.tool, gaps |-> r.gaps,
                  memories |-> r.memories, halted |-> r.halted]
           /\ [r EXCEPT !.execution = x] = [status |-> r.status, maker |-> r.maker, action |-> r.action,
                  execution |-> x, outcome |-> r.outcome, tool |-> r.tool, gaps |-> r.gaps,
                  memories |-> r.memories, halted |-> r.halted]
           /\ [r EXCEPT !.outcome = x] = [status |-> r.status, maker |-> r.maker, action |-> r.action,
                  execution |-> r.execution, outcome |-> x, tool |-> r.tool, gaps |-> r.gaps,
                  memories |-> r.memories, halted |-> r.halted]
           /\ [r EXCEPT !.tool = x] = [status |-> r.status, maker |-> r.maker, action |-> r.action,
                  execution |-> r.execution, outcome |-> r.outcome, tool |-> x, gaps |-> r.gaps,
                  memories |-> r.memories, halted |-> r.halted]
           /\ [r EXCEPT !.gaps = x] = [status |-> r.status, maker |-> r.maker, action |-> r.action,
                  execution |-> r.execution, outcome |-> r.outcome, tool |-> r.tool, gaps |-> x,
                  memories |-> r.memories, halted |-> r.halted]
           /\ [r EXCEPT !.memories = x] = [status |-> r.status, maker |-> r.maker, action |-> r.action,
                  execution |-> r.execution, outcome |-> r.outcome, tool |-> r.tool, gaps |-> r.gaps,
                  memories |-> x, halted |-> r.halted]
           /\ [r EXCEPT !.halted = x] = [status |-> r.status, maker |-> r.maker, action |-> r.action,
                  execution |-> r.execution, outcome |-> r.outcome, tool |-> r.tool, gaps |-> r.gaps,
                  memories |-> r.memories, halted |-> x]
  OBVIOUS

Statements ==
    {"idle", "create", "remember", "approve", "assert", "mayAct", "reassert", "execute", "attach", "finish",
     "mayMeasure", "measure", "settle", "log", "report", "defer", "gap", "done"}

Statuses == {"none", "proposed", "approved", "action_pending", "completed", "outcome_recorded"}

ToolStates == {"none", "processing", "awaiting_confirmation", "awaiting_approval", "completed"}

DeskRow ==
    [status : Statuses, maker : DeskCalls \cup {"none"},
     action : {NoAction} \cup [workflow : Workflows, run : DeskCalls],
     execution : [DeskCalls -> {"none", "awaiting_approval", "queued"}],
     outcome : [DeskCalls -> {"none", "measured", "expected"}],
     tool : [DeskCalls -> ToolStates],
     gaps : SUBSET DeskCalls, memories : SUBSET DeskCalls, halted : BOOLEAN]

DeskRequest == [op : DOMAIN Program, workflow : Workflows, id : RequestIds, outcome : {"measured", "expected"}]

DTypeOK ==
    /\ faults \subseteq FaultKinds
    /\ row \in DeskRow
    /\ step \in [DeskCalls -> Statements]
    /\ request \in [DeskCalls -> {[op |-> "none"]} \cup DeskRequest]

\* What is true of a call wherever it stands, whatever the others do.
DeskCallHolds(c) ==
    /\ step[c] \notin {"idle", "done"} => Lists(request[c].op, step[c])
    /\ IF step[c] = "idle" THEN request[c].op = "none" ELSE request[c] \in DeskRequest
    /\ row.execution[c] # "none" =>
           request[c].op \in {"act", "tool"} /\ step[c] \in {"attach", "finish", "report", "done"}
    /\ step[c] \in {"attach", "finish"} \/ (step[c] = "report" /\ request[c].op = "tool") => row.execution[c] # "none"
    /\ row.outcome[c] # "none" => request[c].op = "outcome" /\ step[c] \in {"settle", "remember", "done"}
    /\ step[c] = "settle" => row.outcome[c] # "none"
    /\ row.tool[c] \notin {"none", "processing"} => step[c] = "done"
    /\ row.tool[c] = "completed" => row.execution[c] = "queued" \/ c \in row.gaps
    /\ row.tool[c] = "awaiting_confirmation" => request[c].op = "unconfirmed"
    /\ step[c] = "report" /\ request[c].op = "gap" => c \in row.gaps
    /\ \/ request[c].op = "act" /\ step[c] \in {"reassert", "execute", "attach", "finish"}
       \/ request[c].op = "act" /\ row.execution[c] # "none"
       \/ step[c] \in {"measure", "settle"}
       \/ row.outcome[c] # "none"
       => row.maker # "none"

DeskCallsHold == \A c \in DeskCalls : DeskCallHolds(c)

\* What is true of the decision.
DecisionHolds ==
    /\ row.status \in {"none", "proposed"} <=> row.maker = "none"
    /\ \A c \in DeskCalls : step[c] = "create" => row.status = "none"
    /\ row.status # "none" => \E c \in DeskCalls : request[c].op = "create"
    /\ \A c, d \in DeskCalls : request[c].op = "create" /\ request[d].op = "create" => c = d
    /\ row.action # NoAction => row.maker # "none" /\ row.execution[row.action.run] # "none"
    /\ \A c, d \in DeskCalls : c # d /\ row.execution[c] # "none" /\ row.execution[d] # "none" =>
           request[c].workflow # request[d].workflow \/ request[c].id # request[d].id

\* What is true besides when calls neither overlap nor end half-way: the test
\* a call made still holds when it writes.
AloneHolds == faults = {} =>
    /\ \A c, d \in DeskCalls : UnderWay(c) /\ UnderWay(d) => c = d
    /\ \A c \in DeskCalls : request[c].op = "act" /\ step[c] \in {"reassert", "execute", "attach"} =>
           row.status = "approved" /\ row.action = NoAction
    /\ \A c \in DeskCalls : step[c] = "finish" => row.status = "approved"
    /\ \A c \in DeskCalls : step[c] \in {"measure", "settle"} => MayMeasure
    /\ row.action # NoAction =>
           \/ row.status \in {"action_pending", "completed", "outcome_recorded"}
           \/ \E c \in DeskCalls : step[c] = "finish"
    /\ row.action # NoAction => row.action.workflow = request[row.action.run].workflow

\* A decision that was approved keeps its user and never goes back.
Forward ==
    row.maker # "none" =>
        row'.maker = row.maker /\ (row.status # "approved" => row'.status \notin {"proposed", "approved"})

\* What the book counts, and a step of the book.
Started == {c \in DeskCalls : row.execution[c] # "none" /\ step[c] = "done"}
Measured == {c \in DeskCalls : row.outcome[c] # "none" /\ step[c] \in {"remember", "done"}}
BookStep == Book!BookNext \/ UNCHANGED Book!bookVars \/ faults # {}

DInv == DTypeOK /\ DeskCallsHold /\ DecisionHolds /\ AloneHolds

USE DeskAssumption

LEMMA DeskInit == DInit => DInv
<1> SUFFICES ASSUME DInit PROVE DInv OBVIOUS
<1> USE DEF DInit, Fresh, NoAction
<1>1. DTypeOK
  <2>1. faults \subseteq FaultKinds BY DeskAssumption
  <2>2. row \in DeskRow BY DEF DeskRow, Statuses, ToolStates
  <2>3. step \in [DeskCalls -> Statements] BY DEF Statements
  <2>4. request \in [DeskCalls -> {[op |-> "none"]} \cup DeskRequest] OBVIOUS
  <2> QED BY <2>1, <2>2, <2>3, <2>4 DEF DTypeOK
<1>2. DeskCallsHold BY DEF DeskCallsHold, DeskCallHolds
<1>3. DecisionHolds BY DEF DecisionHolds
<1>4. AloneHolds BY DEF AloneHolds, UnderWay
<1> QED BY <1>1, <1>2, <1>3, <1>4 DEF DInv

\* What a call does when it runs a statement.
LEMMA RunFacts ==
    ASSUME DInv, NEW c \in DeskCalls, NEW s \in Statements \ {"idle", "done"}, Run(c, s)
    PROVE  /\ step[c] = s /\ UNCHANGED <<faults, request>> /\ request[c] \in DeskRequest
           /\ Lists(request[c].op, s) /\ Follows(request[c].op, s, step'[c])
           /\ step' \in [DeskCalls -> Statements]
           /\ \A d \in DeskCalls : d # c => step'[d] = step[d]
<1>1. step[c] = s BY DEF Run
<1>2. Lists(request[c].op, s) /\ request[c] \in DeskRequest
      BY <1>1 DEF DInv, DeskCallsHold, DeskCallHolds
<1>3. PICK t : Follows(request[c].op, s, t) /\ step' = [step EXCEPT ![c] = t] BY <1>2, Onward
<1>4. t \in Statements BY <1>3 DEF Follows, Statements
<1>5. step'[c] = t BY <1>3 DEF DInv, DTypeOK
<1>6. step' \in [DeskCalls -> Statements] /\ \A d \in DeskCalls : d # c => step'[d] = step[d]
      BY <1>3, <1>4 DEF DInv, DTypeOK
<1> QED BY <1>1, <1>2, <1>3, <1>5, <1>6 DEF Run

\* A statement that writes one column leaves the others.
LEMMA RowFacts ==
    ASSUME row \in DeskRow, NEW x
    PROVE  /\ row' = [row EXCEPT !.status = x] /\ x \in Statuses =>
               /\ row' \in DeskRow /\ row'.status = x
               /\ UNCHANGED <<row.maker, row.action, row.execution, row.outcome, row.tool, row.gaps, row.memories, row.halted>>
           /\ row' = [row EXCEPT !.action = x] /\ x \in {NoAction} \cup [workflow : Workflows, run : DeskCalls] =>
               /\ row' \in DeskRow /\ row'.action = x
               /\ UNCHANGED <<row.status, row.maker, row.execution, row.outcome, row.tool, row.gaps, row.memories, row.halted>>
           /\ row' = [row EXCEPT !.execution = x] /\ x \in [DeskCalls -> {"none", "awaiting_approval", "queued"}] =>
               /\ row' \in DeskRow /\ row'.execution = x
               /\ UNCHANGED <<row.status, row.maker, row.action, row.outcome, row.tool, row.gaps, row.memories, row.halted>>
           /\ row' = [row EXCEPT !.outcome = x] /\ x \in [DeskCalls -> {"none", "measured", "expected"}] =>
               /\ row' \in DeskRow /\ row'.outcome = x
               /\ UNCHANGED <<row.status, row.maker, row.action, row.execution, row.tool, row.gaps, row.memories, row.halted>>
           /\ row' = [row EXCEPT !.tool = x] /\ x \in [DeskCalls -> ToolStates] =>
               /\ row' \in DeskRow /\ row'.tool = x
               /\ UNCHANGED <<row.status, row.maker, row.action, row.execution, row.outcome, row.gaps, row.memories, row.halted>>
           /\ row' = [row EXCEPT !.halted = x] /\ x \in BOOLEAN =>
               /\ row' \in DeskRow /\ row'.halted = x
               /\ UNCHANGED <<row.status, row.maker, row.action, row.execution, row.outcome, row.tool, row.gaps, row.memories>>
<1> USE DEF DeskRow
<1>1. ASSUME row' = [row EXCEPT !.status = x], x \in Statuses
      PROVE  row' \in DeskRow /\ row'.status = x /\ UNCHANGED <<row.maker, row.action, row.execution, row.outcome, row.tool, row.gaps, row.memories, row.halted>>
  <2>1. row' = [status |-> x, maker |-> row.maker, action |-> row.action, execution |-> row.execution,
                outcome |-> row.outcome, tool |-> row.tool, gaps |-> row.gaps, memories |-> row.memories, halted |-> row.halted]
        BY <1>1, RowExcept
  <2> QED BY <1>1, <2>1
<1>2. ASSUME row' = [row EXCEPT !.action = x], x \in {NoAction} \cup [workflow : Workflows, run : DeskCalls]
      PROVE  row' \in DeskRow /\ row'.action = x /\ UNCHANGED <<row.status, row.maker, row.execution, row.outcome, row.tool, row.gaps, row.memories, row.halted>>
  <2>1. row' = [status |-> row.status, maker |-> row.maker, action |-> x, execution |-> row.execution,
                outcome |-> row.outcome, tool |-> row.tool, gaps |-> row.gaps, memories |-> row.memories, halted |-> row.halted]
        BY <1>2, RowExcept
  <2> QED BY <1>2, <2>1
<1>3. ASSUME row' = [row EXCEPT !.execution = x], x \in [DeskCalls -> {"none", "awaiting_approval", "queued"}]
      PROVE  row' \in DeskRow /\ row'.execution = x /\ UNCHANGED <<row.status, row.maker, row.action, row.outcome, row.tool, row.gaps, row.memories, row.halted>>
  <2>1. row' = [status |-> row.status, maker |-> row.maker, action |-> row.action, execution |-> x,
                outcome |-> row.outcome, tool |-> row.tool, gaps |-> row.gaps, memories |-> row.memories, halted |-> row.halted]
        BY <1>3, RowExcept
  <2> QED BY <1>3, <2>1
<1>4. ASSUME row' = [row EXCEPT !.outcome = x], x \in [DeskCalls -> {"none", "measured", "expected"}]
      PROVE  row' \in DeskRow /\ row'.outcome = x /\ UNCHANGED <<row.status, row.maker, row.action, row.execution, row.tool, row.gaps, row.memories, row.halted>>
  <2>1. row' = [status |-> row.status, maker |-> row.maker, action |-> row.action, execution |-> row.execution,
                outcome |-> x, tool |-> row.tool, gaps |-> row.gaps, memories |-> row.memories, halted |-> row.halted]
        BY <1>4, RowExcept
  <2> QED BY <1>4, <2>1
<1>5. ASSUME row' = [row EXCEPT !.tool = x], x \in [DeskCalls -> ToolStates]
      PROVE  row' \in DeskRow /\ row'.tool = x /\ UNCHANGED <<row.status, row.maker, row.action, row.execution, row.outcome, row.gaps, row.memories, row.halted>>
  <2>1. row' = [status |-> row.status, maker |-> row.maker, action |-> row.action, execution |-> row.execution,
                outcome |-> row.outcome, tool |-> x, gaps |-> row.gaps, memories |-> row.memories, halted |-> row.halted]
        BY <1>5, RowExcept
  <2> QED BY <1>5, <2>1
<1>6. ASSUME row' = [row EXCEPT !.halted = x], x \in BOOLEAN
      PROVE  row' \in DeskRow /\ row'.halted = x /\ UNCHANGED <<row.status, row.maker, row.action, row.execution, row.outcome, row.tool, row.gaps, row.memories>>
  <2>1. row' = [status |-> row.status, maker |-> row.maker, action |-> row.action, execution |-> row.execution,
                outcome |-> row.outcome, tool |-> row.tool, gaps |-> row.gaps, memories |-> row.memories, halted |-> x]
        BY <1>6, RowExcept
  <2> QED BY <1>6, <2>1
<1> QED BY <1>1, <1>2, <1>3, <1>4, <1>5, <1>6

LEMMA SetFacts ==
    ASSUME row \in DeskRow, NEW x \in SUBSET DeskCalls
    PROVE  /\ row' = [row EXCEPT !.gaps = x] =>
               /\ row' \in DeskRow /\ row'.gaps = x
               /\ UNCHANGED <<row.status, row.maker, row.action, row.execution, row.outcome, row.tool, row.memories, row.halted>>
           /\ row' = [row EXCEPT !.memories = x] =>
               /\ row' \in DeskRow /\ row'.memories = x
               /\ UNCHANGED <<row.status, row.maker, row.action, row.execution, row.outcome, row.tool, row.gaps, row.halted>>
<1> USE DEF DeskRow
<1>1. ASSUME row' = [row EXCEPT !.gaps = x]
      PROVE  row' \in DeskRow /\ row'.gaps = x /\ UNCHANGED <<row.status, row.maker, row.action, row.execution, row.outcome, row.tool, row.memories, row.halted>>
  <2>1. row' = [status |-> row.status, maker |-> row.maker, action |-> row.action, execution |-> row.execution,
                outcome |-> row.outcome, tool |-> row.tool, gaps |-> x, memories |-> row.memories, halted |-> row.halted]
        BY <1>1, RowExcept
  <2> QED BY <1>1, <2>1
<1>2. ASSUME row' = [row EXCEPT !.memories = x]
      PROVE  row' \in DeskRow /\ row'.memories = x /\ UNCHANGED <<row.status, row.maker, row.action, row.execution, row.outcome, row.tool, row.gaps, row.halted>>
  <2>1. row' = [status |-> row.status, maker |-> row.maker, action |-> row.action, execution |-> row.execution,
                outcome |-> row.outcome, tool |-> row.tool, gaps |-> row.gaps, memories |-> x, halted |-> row.halted]
        BY <1>2, RowExcept
  <2> QED BY <1>2, <2>1
<1> QED BY <1>1, <1>2

\* What is true of a call stays true when others change what is not its own.
LEMMA OthersHold ==
    ASSUME DInv, NEW d \in DeskCalls, step'[d] = step[d], request'[d] = request[d],
           row'.execution[d] = row.execution[d], row'.outcome[d] = row.outcome[d], row'.tool[d] = row.tool[d],
           d \in row.gaps => d \in row'.gaps, row.maker # "none" => row'.maker # "none"
    PROVE  DeskCallHolds(d)'
<1>1. DeskCallHolds(d) BY DEF DInv, DeskCallsHold
<1> QED BY <1>1 DEF DeskCallHolds

\* What a call does to the sets the book counts.
LEMMA BookSets ==
    ASSUME NEW c \in DeskCalls,
           \A d \in DeskCalls : d # c =>
               step'[d] = step[d] /\ row'.execution[d] = row.execution[d] /\ row'.outcome[d] = row.outcome[d]
    PROVE  /\ (c \in Started') <=> (row'.execution[c] # "none" /\ step'[c] = "done")
           /\ (c \in Started) <=> (row.execution[c] # "none" /\ step[c] = "done")
           /\ (c \in Measured') <=> (row'.outcome[c] # "none" /\ step'[c] \in {"remember", "done"})
           /\ (c \in Measured) <=> (row.outcome[c] # "none" /\ step[c] \in {"remember", "done"})
           /\ (c \in Started' <=> c \in Started) => Started' = Started
           /\ (c \in Measured' <=> c \in Measured) => Measured' = Measured
           /\ c \in Started' => Started' = Started \cup {c}
           /\ c \in Measured' => Measured' = Measured \cup {c}
  BY DEF Started, Measured

LEMMA BookSame ==
    ASSUME NEW c \in DeskCalls, row'.status = row.status,
           \A d \in DeskCalls : d # c =>
               step'[d] = step[d] /\ row'.execution[d] = row.execution[d] /\ row'.outcome[d] = row.outcome[d],
           (row'.execution[c] # "none" /\ step'[c] = "done") <=> (row.execution[c] # "none" /\ step[c] = "done"),
           (row'.outcome[c] # "none" /\ step'[c] \in {"remember", "done"}) <=>
               (row.outcome[c] # "none" /\ step[c] \in {"remember", "done"})
    PROVE  BookStep
<1>1. Started' = Started /\ Measured' = Measured BY DEF Started, Measured
<1> QED BY <1>1 DEF BookStep, Book!bookVars, Started, Measured

LEMMA BookGrows ==
    ASSUME NEW S \in SUBSET DeskCalls, NEW c \in DeskCalls, c \notin S
    PROVE  Cardinality(S \cup {c}) = Cardinality(S) + 1
  BY FS_Subset, FS_AddElement, DeskAssumption

\* A call that ends before its last statement writes nothing.
LEMMA RejectKeeps ==
    ASSUME DInv, NEW c \in DeskCalls, NEW s \in Statements \ {"idle", "done"}, Reject(c, s),
           s \in {"approve", "assert", "reassert", "mayAct", "mayMeasure", "execute"} \/ faults # {}
    PROVE  DInv' /\ Forward /\ BookStep
<1>1. step[c] = s /\ UNCHANGED <<faults, request, row>> /\ step' = [step EXCEPT ![c] = "done"] BY DEF Reject
<1>2. step'[c] = "done" /\ (\A d \in DeskCalls : d # c => step'[d] = step[d]) /\ step' \in [DeskCalls -> Statements]
      BY <1>1 DEF DInv, DTypeOK, Statements
<1>3. DTypeOK' BY <1>1, <1>2 DEF DInv, DTypeOK
<1>4. DeskCallsHold'
  <2>1. DeskCallHolds(c)' BY <1>1, <1>2 DEF DInv, DeskCallsHold, DeskCallHolds
  <2>2. ASSUME NEW d \in DeskCalls, d # c PROVE DeskCallHolds(d)' BY <1>1, <1>2, <2>2, OthersHold
  <2> QED BY <2>1, <2>2 DEF DeskCallsHold
<1>5. DecisionHolds' BY <1>1, <1>2 DEF DInv, DecisionHolds
<1>6. AloneHolds' BY <1>1, <1>2 DEF DInv, AloneHolds, UnderWay, MayMeasure
<1>7. Forward BY <1>1 DEF DInv, DecisionHolds, Forward
<1>8. BookStep
  <2>1. CASE faults = {}
        BY <1>1, <1>2, <2>1, BookSame DEF DInv, DeskCallsHold, DeskCallHolds
  <2> QED BY <2>1 DEF BookStep
<1> QED BY <1>3, <1>4, <1>5, <1>6, <1>7, <1>8 DEF DInv

LEMMA BeginOperationKeeps ==
    ASSUME DInv, NEW c \in DeskCalls, BeginOperation(c) PROVE DInv' /\ Forward /\ BookStep
<1>1. PICK op \in DOMAIN Program, w \in Workflows, id \in RequestIds, o \in {"measured", "expected"} :
          /\ op = "create" => \A d \in DeskCalls : request[d].op # "create"
          /\ op \notin {"act", "tool"} => w = (CHOOSE x \in Workflows : TRUE) /\ id = (CHOOSE x \in RequestIds : TRUE)
          /\ op # "outcome" => o = "measured"
          /\ request' = [request EXCEPT ![c] = [op |-> op, workflow |-> w, id |-> id, outcome |-> o]]
          /\ step' = [step EXCEPT ![c] = Head(Program[op])]
      BY DEF BeginOperation
<1>2. /\ step[c] = "idle" /\ UNCHANGED <<faults, row>>
      /\ "overlap" \notin faults => \A d \in DeskCalls : ~UnderWay(d)
      BY DEF BeginOperation
<1>3. op \in {"create", "approve", "act", "outcome", "tool", "unconfirmed", "gap"} BY DEF Program
<1>4. /\ Head(Program[op]) \in Statements \ {"idle", "done", "attach", "finish", "report", "settle", "measure"}
      /\ Lists(op, Head(Program[op]))
      /\ op = "act" => Head(Program[op]) = "assert"
      /\ Head(Program[op]) = "create" => op = "create"
      BY <1>3 DEF Program, Lists, Statements
<1> DEFINE new == [op |-> op, workflow |-> w, id |-> id, outcome |-> o]
<1>5. new \in DeskRequest /\ new.op = op BY DEF DeskRequest
<1>6. /\ request'[c] = new /\ step'[c] = Head(Program[op])
      /\ \A d \in DeskCalls : d # c => request'[d] = request[d] /\ step'[d] = step[d]
      BY <1>1 DEF DInv, DTypeOK
<1>7. DTypeOK' BY <1>1, <1>2, <1>4, <1>5 DEF DInv, DTypeOK
<1>8. DeskCallHolds(c) /\ request[c].op = "none" BY <1>2 DEF DInv, DeskCallsHold, DeskCallHolds
<1> HIDE DEF new
<1>9. DeskCallsHold'
  <2>1. DeskCallHolds(c)' BY <1>2, <1>4, <1>5, <1>6, <1>8 DEF DeskCallHolds
  <2>2. ASSUME NEW d \in DeskCalls, d # c PROVE DeskCallHolds(d)' BY <1>2, <1>6, <2>2, OthersHold
  <2> QED BY <2>1, <2>2 DEF DeskCallsHold
<1>10. DecisionHolds'
  <2>1. \A d \in DeskCalls : row.execution[d] # "none" => d # c BY <1>2, <1>8 DEF DeskCallHolds
  <2>2. \A d \in DeskCalls : request[d].op = "create" => request'[d] = request[d] BY <1>6, <1>8
  <2> QED BY <1>1, <1>2, <1>4, <1>5, <1>6, <2>1, <2>2 DEF DInv, DecisionHolds
<1>11. AloneHolds'
  <2> SUFFICES ASSUME faults' = {} PROVE AloneHolds' BY DEF AloneHolds
  <2>1. faults = {} /\ \A d \in DeskCalls : ~UnderWay(d) BY <1>2
  <2>2. row.action # NoAction => row.action.run \in DeskCalls /\ row.action.run # c
        BY <1>2, <1>8 DEF DInv, DTypeOK, DeskRow, DecisionHolds, DeskCallHolds
  <2>3. \A d \in DeskCalls : step[d] \in {"idle", "done"} BY <2>1 DEF UnderWay
  <2>4. \A d \in DeskCalls : d # c => step'[d] \in {"idle", "done"} BY <1>6, <2>3
  <2>5. /\ row.action # NoAction => row.status \in {"action_pending", "completed", "outcome_recorded"}
        /\ row.action # NoAction => row.action.workflow = request[row.action.run].workflow
        BY <2>1, <2>3 DEF DInv, AloneHolds
  <2>6. row.action # NoAction => row'.action.workflow = request'[row.action.run].workflow BY <1>2, <1>6, <2>2, <2>5
  <2>7. \A d, e \in DeskCalls : UnderWay(d)' /\ UnderWay(e)' => d = e BY <2>4 DEF UnderWay
  <2>8. \A d \in DeskCalls : /\ step'[d] \notin {"finish", "measure", "settle"}
                             /\ ~(request'[d].op = "act" /\ step'[d] \in {"reassert", "execute", "attach"})
        BY <1>4, <1>5, <1>6, <2>4
  <2> QED BY <1>2, <2>5, <2>6, <2>7, <2>8 DEF AloneHolds
<1>12. Forward BY <1>2 DEF DInv, DecisionHolds, Forward
<1>13. BookStep BY <1>2, <1>4, <1>6, <1>8, BookSame DEF DeskCallHolds
<1> QED BY <1>7, <1>9, <1>10, <1>11, <1>12, <1>13 DEF DInv

\* A test that succeeds: what it read is known until another call writes.
LEMMA ReadKeeps ==
    ASSUME DInv, NEW c \in DeskCalls, NEW s \in {"assert", "reassert", "mayAct", "mayMeasure"}, Run(c, s),
           UNCHANGED row, s = "mayAct" => MayAct, s = "mayMeasure" => MayMeasure
    PROVE  DInv' /\ Forward /\ BookStep
<1>1. /\ step[c] = s /\ UNCHANGED <<faults, request>> /\ request[c] \in DeskRequest
      /\ Follows(request[c].op, s, step'[c])
      /\ step' \in [DeskCalls -> Statements] /\ (\A d \in DeskCalls : d # c => step'[d] = step[d])
      BY RunFacts DEF Statements
<1> USE DEF Follows
<1>2. MayAct \/ MayMeasure => row.maker # "none" BY DEF DInv, DecisionHolds, MayAct, MayMeasure
<1>3. DTypeOK' BY <1>1 DEF DInv, DTypeOK
<1>4. DeskCallsHold'
  <2>1. DeskCallHolds(c)' BY <1>1, <1>2 DEF DInv, DeskCallsHold, DeskCallHolds, Lists
  <2>2. ASSUME NEW d \in DeskCalls, d # c PROVE DeskCallHolds(d)' BY <1>1, <2>2, OthersHold
  <2> QED BY <2>1, <2>2 DEF DeskCallsHold
<1>5. DecisionHolds' BY <1>1 DEF DInv, DecisionHolds
<1>6. AloneHolds'
  <2> SUFFICES ASSUME faults = {} PROVE AloneHolds' BY <1>1 DEF AloneHolds
  <2>1. \A d \in DeskCalls : UnderWay(d) => d = c BY <1>1 DEF DInv, AloneHolds, UnderWay
  <2>2. \A d \in DeskCalls : d # c => step'[d] \in {"idle", "done"} BY <1>1, <2>1 DEF UnderWay
  <2>3. row.action # NoAction => row.status \in {"action_pending", "completed", "outcome_recorded"}
        BY <1>1, <2>1 DEF DInv, AloneHolds, UnderWay
  <2>4. step'[c] # "finish" BY <1>1
  <2>5. request[c].op = "act" /\ step'[c] = "reassert" => row.status = "approved" BY <1>1 DEF MayAct
  <2>6. request[c].op = "act" /\ step'[c] = "execute" => row.status = "approved"
        BY <1>1 DEF DInv, AloneHolds
  <2>7. step'[c] # "attach" /\ step'[c] # "settle" BY <1>1
  <2>8. step'[c] = "measure" => MayMeasure BY <1>1
  <2> QED BY <1>1, <2>2, <2>3, <2>4, <2>5, <2>6, <2>7, <2>8 DEF DInv, AloneHolds, UnderWay, MayMeasure
<1>7. Forward BY <1>1 DEF DInv, DecisionHolds, Forward
<1>8. BookStep BY <1>1, BookSame
<1> QED BY <1>3, <1>4, <1>5, <1>6, <1>7, <1>8 DEF DInv

\* The only call that creates finds no row.
LEMMA CreateKeeps ==
    ASSUME DInv, NEW c \in DeskCalls, Run(c, "create"),
           row' = [row EXCEPT !.status = "proposed"]
    PROVE  DInv' /\ Forward /\ BookStep
<1>1. /\ step[c] = "create" /\ UNCHANGED <<faults, request>> /\ request[c] \in DeskRequest
      /\ Follows(request[c].op, "create", step'[c])
      /\ step' \in [DeskCalls -> Statements] /\ (\A d \in DeskCalls : d # c => step'[d] = step[d])
      BY RunFacts DEF Statements
<1> USE DEF Follows
<1>2. row.status = "none" /\ row.maker = "none" /\ request[c].op = "create" BY <1>1 DEF DInv, DecisionHolds
<1>3. /\ row' \in DeskRow /\ row'.status = "proposed"
      /\ UNCHANGED <<row.maker, row.action, row.execution, row.outcome, row.tool, row.gaps, row.memories, row.halted>>
  <2>1. row' = [row EXCEPT !.status = "proposed"] OBVIOUS
  <2>2. "proposed" \in Statuses BY <1>1 DEF DInv, DTypeOK, DeskRow, DeskRequest, Statuses, ToolStates
  <2>3. row \in DeskRow BY DEF DInv, DTypeOK
  <2> QED BY ONLY <2>1, <2>2, <2>3, RowFacts
<1>4. DTypeOK' BY <1>1, <1>3 DEF DInv, DTypeOK
<1>5. DeskCallsHold'
  <2>1. DeskCallHolds(c)' BY <1>1, <1>2, <1>3 DEF DInv, DeskCallsHold, DeskCallHolds, Lists
  <2>2. ASSUME NEW d \in DeskCalls, d # c PROVE DeskCallHolds(d)' BY <1>1, <1>2, <1>3, <2>2, OthersHold
  <2> QED BY <2>1, <2>2 DEF DeskCallsHold
<1>6. DecisionHolds' BY <1>1, <1>2, <1>3 DEF DInv, DecisionHolds, DeskCallsHold, DeskCallHolds, Lists
<1>7. AloneHolds' BY <1>1, <1>2, <1>3 DEF DInv, AloneHolds, UnderWay, MayMeasure, DecisionHolds
<1>8. Forward BY <1>1, <1>2, <1>3 DEF DInv, DecisionHolds, Forward
<1>9. BookStep
  <2>1. Started' = Started /\ Measured' = Measured
        BY <1>1, <1>2, <1>3, BookSets DEF DInv, DeskCallsHold, DeskCallHolds, Lists
  <2> QED BY <1>2, <1>3, <2>1 DEF BookStep, Started, Measured, Book!BookNext, Book!BookCreate
<1> QED BY <1>4, <1>5, <1>6, <1>7, <1>8, <1>9 DEF DInv

\* A record in organizational_memory changes nothing here.
LEMMA RememberKeeps ==
    ASSUME DInv, NEW c \in DeskCalls, Run(c, "remember"),
           row' = [row EXCEPT !.memories = @ \cup {c}]
    PROVE  DInv' /\ Forward /\ BookStep
<1>1. /\ step[c] = "remember" /\ UNCHANGED <<faults, request>> /\ request[c] \in DeskRequest
      /\ Follows(request[c].op, "remember", step'[c])
      /\ step' \in [DeskCalls -> Statements] /\ (\A d \in DeskCalls : d # c => step'[d] = step[d])
      BY RunFacts DEF Statements
<1> USE DEF Follows
<1>2. TRUE OBVIOUS
<1>3. /\ row' \in DeskRow /\ row'.memories = (row.memories \cup {c})
      /\ UNCHANGED <<row.status, row.maker, row.action, row.execution, row.outcome, row.tool, row.gaps, row.halted>>
  <2>1. row' = [row EXCEPT !.memories = (row.memories \cup {c})] OBVIOUS
  <2>2. (row.memories \cup {c}) \in SUBSET DeskCalls BY <1>1 DEF DInv, DTypeOK, DeskRow, DeskRequest, Statuses, ToolStates
  <2>3. row \in DeskRow BY DEF DInv, DTypeOK
  <2> QED BY ONLY <2>1, <2>2, <2>3, SetFacts
<1>4. DTypeOK' BY <1>1, <1>3 DEF DInv, DTypeOK
<1>5. DeskCallsHold'
  <2>1. DeskCallHolds(c)' BY <1>1, <1>2, <1>3 DEF DInv, DeskCallsHold, DeskCallHolds, Lists
  <2>2. ASSUME NEW d \in DeskCalls, d # c PROVE DeskCallHolds(d)' BY <1>1, <1>2, <1>3, <2>2, OthersHold
  <2> QED BY <2>1, <2>2 DEF DeskCallsHold
<1>6. DecisionHolds' BY <1>1, <1>2, <1>3 DEF DInv, DecisionHolds, DeskCallsHold, DeskCallHolds, Lists
<1>7. AloneHolds' BY <1>1, <1>2, <1>3 DEF DInv, AloneHolds, UnderWay, MayMeasure, DecisionHolds
<1>8. Forward BY <1>1, <1>2, <1>3 DEF DInv, DecisionHolds, Forward
<1>9. BookStep BY <1>1, <1>2, <1>3, BookSame DEF DInv, DeskCallsHold, DeskCallHolds, Lists
<1> QED BY <1>4, <1>5, <1>6, <1>7, <1>8, <1>9 DEF DInv

\* The first approval names its user.
LEMMA ApproveKeeps ==
    ASSUME DInv, NEW c \in DeskCalls, Proposed, Run(c, "approve"),
           row' = [row EXCEPT !.status = "approved", !.maker = c]
    PROVE  DInv' /\ Forward /\ BookStep
<1>1. /\ step[c] = "approve" /\ UNCHANGED <<faults, request>> /\ request[c] \in DeskRequest
      /\ Follows(request[c].op, "approve", step'[c])
      /\ step' \in [DeskCalls -> Statements] /\ (\A d \in DeskCalls : d # c => step'[d] = step[d])
      BY RunFacts DEF Statements
<1> USE DEF Follows
<1>2. row.status = "proposed" /\ row.maker = "none" BY DEF DInv, DecisionHolds, Proposed
<1>3. /\ row' \in DeskRow /\ row'.status = "approved" /\ row'.maker = c
      /\ UNCHANGED <<row.action, row.execution, row.outcome, row.tool, row.gaps, row.memories, row.halted>>
  <2> DEFINE approved == [row EXCEPT !.status = "approved"]
  <2>1. row \in DeskRow BY DEF DInv, DTypeOK
  <2>2. approved = [status |-> "approved", maker |-> row.maker, action |-> row.action, execution |-> row.execution,
                    outcome |-> row.outcome, tool |-> row.tool, gaps |-> row.gaps, memories |-> row.memories,
                    halted |-> row.halted]
        BY <2>1, RowExcept DEF DeskRow
  <2> HIDE DEF approved
  <2>3. [approved EXCEPT !.maker = c] = [status |-> "approved", maker |-> c, action |-> row.action,
                    execution |-> row.execution, outcome |-> row.outcome, tool |-> row.tool, gaps |-> row.gaps,
                    memories |-> row.memories, halted |-> row.halted]
        BY <2>2
  <2>4. row' = [approved EXCEPT !.maker = c] BY DEF approved
  <2> QED BY <2>1, <2>3, <2>4 DEF DeskRow, Statuses
<1>4. DTypeOK' BY <1>1, <1>3 DEF DInv, DTypeOK
<1>5. DeskCallsHold'
  <2>1. DeskCallHolds(c)' BY <1>1, <1>2, <1>3 DEF DInv, DeskCallsHold, DeskCallHolds, Lists
  <2>2. ASSUME NEW d \in DeskCalls, d # c PROVE DeskCallHolds(d)' BY <1>1, <1>2, <1>3, <2>2, OthersHold
  <2> QED BY <2>1, <2>2 DEF DeskCallsHold
<1>6. DecisionHolds' BY <1>1, <1>2, <1>3 DEF DInv, DecisionHolds, DeskCallsHold, DeskCallHolds, Lists
<1>7. AloneHolds' BY <1>1, <1>2, <1>3 DEF DInv, AloneHolds, UnderWay, MayMeasure, DecisionHolds
<1>8. Forward BY <1>1, <1>2, <1>3 DEF DInv, DecisionHolds, Forward
<1>9. BookStep
  <2>1. Started' = Started /\ Measured' = Measured
        BY <1>1, <1>2, <1>3, BookSets DEF DInv, DeskCallsHold, DeskCallHolds, Lists
  <2> QED BY <1>2, <1>3, <2>1 DEF BookStep, Started, Measured, Book!BookNext, Book!BookApprove
<1> QED BY <1>4, <1>5, <1>6, <1>7, <1>8, <1>9 DEF DInv

\* A workflow is started once for a request that is sent again.
LEMMA ExecuteKeeps ==
    ASSUME DInv, NEW c \in DeskCalls, NEW e \in {"awaiting_approval", "queued"}, ~Duplicate(c),
           Run(c, "execute"),
           row' = [row EXCEPT !.execution[c] = e]
    PROVE  DInv' /\ Forward /\ BookStep
<1>1. /\ step[c] = "execute" /\ UNCHANGED <<faults, request>> /\ request[c] \in DeskRequest
      /\ Follows(request[c].op, "execute", step'[c])
      /\ step' \in [DeskCalls -> Statements] /\ (\A d \in DeskCalls : d # c => step'[d] = step[d])
      BY RunFacts DEF Statements
<1> USE DEF Follows
<1>2. request[c].op \in {"act", "tool"} /\ ~Duplicate(c) BY <1>1
<1>3. /\ row' \in DeskRow /\ row'.execution = [row.execution EXCEPT ![c] = e]
      /\ UNCHANGED <<row.status, row.maker, row.action, row.outcome, row.tool, row.gaps, row.memories, row.halted>>
  <2>1. row' = [row EXCEPT !.execution = [row.execution EXCEPT ![c] = e]] OBVIOUS
  <2>2. row \in DeskRow BY DEF DInv, DTypeOK
  <2>3. [row.execution EXCEPT ![c] = e] \in [DeskCalls -> {"none", "awaiting_approval", "queued"}]
        BY <1>1, <2>2 DEF DeskRow, DeskRequest, ToolStates
  <2> QED BY ONLY <2>1, <2>2, <2>3, RowFacts
<1>a. row'.execution[c] = e /\ \A d \in DeskCalls : d # c => row'.execution[d] = row.execution[d]
      BY <1>3 DEF DInv, DTypeOK, DeskRow
<1>4. DTypeOK' BY <1>1, <1>3 DEF DInv, DTypeOK
<1>5. DeskCallsHold'
  <2>1. DeskCallHolds(c)' BY <1>1, <1>2, <1>3, <1>a DEF DInv, DeskCallsHold, DeskCallHolds, Lists
  <2>2. ASSUME NEW d \in DeskCalls, d # c PROVE DeskCallHolds(d)' BY <1>1, <1>2, <1>3, <1>a, <2>2, OthersHold
  <2> QED BY <2>1, <2>2 DEF DeskCallsHold
<1>6. DecisionHolds' BY <1>1, <1>2, <1>3, <1>a DEF DInv, DecisionHolds, DeskCallsHold, DeskCallHolds, Lists, Duplicate
<1>7. AloneHolds' BY <1>1, <1>2, <1>3, <1>a DEF DInv, AloneHolds, UnderWay, MayMeasure, DecisionHolds
<1>8. Forward BY <1>1, <1>2, <1>3, <1>a DEF DInv, DecisionHolds, Forward
<1>9. BookStep BY <1>1, <1>2, <1>3, <1>a, BookSame DEF DInv, DeskCallsHold, DeskCallHolds, Lists
<1> QED BY <1>4, <1>5, <1>6, <1>7, <1>8, <1>9 DEF DInv

\* An outcome follows an approval.
LEMMA MeasureKeeps ==
    ASSUME DInv, NEW c \in DeskCalls, NEW e \in {"measured", "expected"}, Run(c, "measure"),
           row' = [row EXCEPT !.outcome[c] = e]
    PROVE  DInv' /\ Forward /\ BookStep
<1>1. /\ step[c] = "measure" /\ UNCHANGED <<faults, request>> /\ request[c] \in DeskRequest
      /\ Follows(request[c].op, "measure", step'[c])
      /\ step' \in [DeskCalls -> Statements] /\ (\A d \in DeskCalls : d # c => step'[d] = step[d])
      BY RunFacts DEF Statements
<1> USE DEF Follows
<1>2. TRUE OBVIOUS
<1>3. /\ row' \in DeskRow /\ row'.outcome = [row.outcome EXCEPT ![c] = e]
      /\ UNCHANGED <<row.status, row.maker, row.action, row.execution, row.tool, row.gaps, row.memories, row.halted>>
  <2>1. row' = [row EXCEPT !.outcome = [row.outcome EXCEPT ![c] = e]] OBVIOUS
  <2>2. row \in DeskRow BY DEF DInv, DTypeOK
  <2>3. [row.outcome EXCEPT ![c] = e] \in [DeskCalls -> {"none", "measured", "expected"}]
        BY <1>1, <2>2 DEF DeskRow, DeskRequest, ToolStates
  <2> QED BY ONLY <2>1, <2>2, <2>3, RowFacts
<1>a. row'.outcome[c] = e /\ \A d \in DeskCalls : d # c => row'.outcome[d] = row.outcome[d]
      BY <1>3 DEF DInv, DTypeOK, DeskRow
<1>4. DTypeOK' BY <1>1, <1>3 DEF DInv, DTypeOK
<1>5. DeskCallsHold'
  <2>1. DeskCallHolds(c)' BY <1>1, <1>2, <1>3, <1>a DEF DInv, DeskCallsHold, DeskCallHolds, Lists
  <2>2. ASSUME NEW d \in DeskCalls, d # c PROVE DeskCallHolds(d)' BY <1>1, <1>2, <1>3, <1>a, <2>2, OthersHold
  <2> QED BY <2>1, <2>2 DEF DeskCallsHold
<1>6. DecisionHolds' BY <1>1, <1>2, <1>3, <1>a DEF DInv, DecisionHolds, DeskCallsHold, DeskCallHolds, Lists
<1>7. AloneHolds' BY <1>1, <1>2, <1>3, <1>a DEF DInv, AloneHolds, UnderWay, MayMeasure, DecisionHolds
<1>8. Forward BY <1>1, <1>2, <1>3, <1>a DEF DInv, DecisionHolds, Forward
<1>9. BookStep BY <1>1, <1>2, <1>3, <1>a, BookSame DEF DInv, DeskCallsHold, DeskCallHolds, Lists
<1> QED BY <1>4, <1>5, <1>6, <1>7, <1>8, <1>9 DEF DInv

\* A decision names the workflow that was started for it last.
LEMMA AttachKeeps ==
    ASSUME DInv, NEW c \in DeskCalls, NEW w \in Workflows, row.action = NoAction => w = request[c].workflow,
           Run(c, "attach"),
           row' = [row EXCEPT !.action = [workflow |-> w, run |-> c]]
    PROVE  DInv' /\ Forward /\ BookStep
<1>1. /\ step[c] = "attach" /\ UNCHANGED <<faults, request>> /\ request[c] \in DeskRequest
      /\ Follows(request[c].op, "attach", step'[c])
      /\ step' \in [DeskCalls -> Statements] /\ (\A d \in DeskCalls : d # c => step'[d] = step[d])
      BY RunFacts DEF Statements
<1> USE DEF Follows
<1>2. /\ row.maker # "none" /\ request[c].op = "act" /\ row.execution[c] # "none"
      /\ faults = {} => row.action = NoAction /\ row.status = "approved"
      BY <1>1 DEF DInv, DeskCallsHold, DeskCallHolds, AloneHolds, Lists
<1>3. /\ row' \in DeskRow /\ row'.action = [workflow |-> w, run |-> c]
      /\ UNCHANGED <<row.status, row.maker, row.execution, row.outcome, row.tool, row.gaps, row.memories, row.halted>>
  <2>1. row' = [row EXCEPT !.action = [workflow |-> w, run |-> c]] OBVIOUS
  <2>2. [workflow |-> w, run |-> c] \in {NoAction} \cup [workflow : Workflows, run : DeskCalls] BY <1>1 DEF DInv, DTypeOK, DeskRow, DeskRequest, Statuses, ToolStates
  <2>3. row \in DeskRow BY DEF DInv, DTypeOK
  <2> QED BY ONLY <2>1, <2>2, <2>3, RowFacts
<1>4. DTypeOK' BY <1>1, <1>3 DEF DInv, DTypeOK
<1>5. DeskCallsHold'
  <2>1. DeskCallHolds(c)' BY <1>1, <1>2, <1>3 DEF DInv, DeskCallsHold, DeskCallHolds, Lists
  <2>2. ASSUME NEW d \in DeskCalls, d # c PROVE DeskCallHolds(d)' BY <1>1, <1>2, <1>3, <2>2, OthersHold
  <2> QED BY <2>1, <2>2 DEF DeskCallsHold
<1>6. DecisionHolds' BY <1>1, <1>2, <1>3 DEF DInv, DecisionHolds, DeskCallsHold, DeskCallHolds, Lists
<1>7. AloneHolds' BY <1>1, <1>2, <1>3 DEF DInv, AloneHolds, UnderWay, MayMeasure, DecisionHolds
<1>8. Forward BY <1>1, <1>2, <1>3 DEF DInv, DecisionHolds, Forward
<1>9. BookStep BY <1>1, <1>2, <1>3, BookSame DEF DInv, DeskCallsHold, DeskCallHolds, Lists
<1> QED BY <1>4, <1>5, <1>6, <1>7, <1>8, <1>9 DEF DInv

\* The decision leaves 'approved' for good.
LEMMA FinishKeeps ==
    ASSUME DInv, NEW c \in DeskCalls, Run(c, "finish"),
           row' = [row EXCEPT !.status = "action_pending"]
    PROVE  DInv' /\ Forward /\ BookStep
<1>1. /\ step[c] = "finish" /\ UNCHANGED <<faults, request>> /\ request[c] \in DeskRequest
      /\ Follows(request[c].op, "finish", step'[c])
      /\ step' \in [DeskCalls -> Statements] /\ (\A d \in DeskCalls : d # c => step'[d] = step[d])
      BY RunFacts DEF Statements
<1> USE DEF Follows
<1>2. row.maker # "none" /\ request[c].op = "act" BY <1>1 DEF DInv, DeskCallsHold, DeskCallHolds
<1>3. /\ row' \in DeskRow /\ row'.status = "action_pending"
      /\ UNCHANGED <<row.maker, row.action, row.execution, row.outcome, row.tool, row.gaps, row.memories, row.halted>>
  <2>1. row' = [row EXCEPT !.status = "action_pending"] OBVIOUS
  <2>2. "action_pending" \in Statuses BY <1>1 DEF DInv, DTypeOK, DeskRow, DeskRequest, Statuses, ToolStates
  <2>3. row \in DeskRow BY DEF DInv, DTypeOK
  <2> QED BY ONLY <2>1, <2>2, <2>3, RowFacts
<1>4. DTypeOK' BY <1>1, <1>3 DEF DInv, DTypeOK
<1>5. DeskCallsHold'
  <2>1. DeskCallHolds(c)' BY <1>1, <1>2, <1>3 DEF DInv, DeskCallsHold, DeskCallHolds, Lists
  <2>2. ASSUME NEW d \in DeskCalls, d # c PROVE DeskCallHolds(d)' BY <1>1, <1>2, <1>3, <2>2, OthersHold
  <2> QED BY <2>1, <2>2 DEF DeskCallsHold
<1>6. DecisionHolds' BY <1>1, <1>2, <1>3 DEF DInv, DecisionHolds, DeskCallsHold, DeskCallHolds, Lists
<1>7. AloneHolds' BY <1>1, <1>2, <1>3 DEF DInv, AloneHolds, UnderWay, MayMeasure, DecisionHolds
<1>8. Forward BY <1>1, <1>2, <1>3 DEF DInv, DecisionHolds, Forward
<1>9. BookStep
  <2> SUFFICES ASSUME faults = {} PROVE BookStep BY DEF BookStep
  <2>1. row.status = "approved" BY <1>1 DEF DInv, AloneHolds
  <2>2. Measured' = Measured /\ Started' = Started \cup {c} /\ c \notin Started
        BY <1>1, <1>2, <1>3, BookSets DEF DInv, DeskCallsHold, DeskCallHolds, Lists
  <2> Started \in SUBSET DeskCalls BY DEF Started
  <2>3. Cardinality(Started') = Cardinality(Started) + 1 BY <2>2, BookGrows
  <2> QED BY <1>3, <2>1, <2>2, <2>3 DEF BookStep, Started, Measured, Book!BookNext, Book!BookAct
<1> QED BY <1>4, <1>5, <1>6, <1>7, <1>8, <1>9 DEF DInv

\* So does the outcome.
LEMMA SettleKeeps ==
    ASSUME DInv, NEW c \in DeskCalls, NEW e \in {"outcome_recorded", "completed"}, Run(c, "settle"),
           row' = [row EXCEPT !.status = e]
    PROVE  DInv' /\ Forward /\ BookStep
<1>1. /\ step[c] = "settle" /\ UNCHANGED <<faults, request>> /\ request[c] \in DeskRequest
      /\ Follows(request[c].op, "settle", step'[c])
      /\ step' \in [DeskCalls -> Statements] /\ (\A d \in DeskCalls : d # c => step'[d] = step[d])
      BY RunFacts DEF Statements
<1> USE DEF Follows
<1>2. row.maker # "none" BY <1>1 DEF DInv, DeskCallsHold, DeskCallHolds
<1>3. /\ row' \in DeskRow /\ row'.status = e
      /\ UNCHANGED <<row.maker, row.action, row.execution, row.outcome, row.tool, row.gaps, row.memories, row.halted>>
  <2>1. row' = [row EXCEPT !.status = e] OBVIOUS
  <2>2. e \in Statuses BY <1>1 DEF DInv, DTypeOK, DeskRow, DeskRequest, Statuses, ToolStates
  <2>3. row \in DeskRow BY DEF DInv, DTypeOK
  <2> QED BY ONLY <2>1, <2>2, <2>3, RowFacts
<1>4. DTypeOK' BY <1>1, <1>3 DEF DInv, DTypeOK
<1>5. DeskCallsHold'
  <2>1. DeskCallHolds(c)' BY <1>1, <1>2, <1>3 DEF DInv, DeskCallsHold, DeskCallHolds, Lists
  <2>2. ASSUME NEW d \in DeskCalls, d # c PROVE DeskCallHolds(d)' BY <1>1, <1>2, <1>3, <2>2, OthersHold
  <2> QED BY <2>1, <2>2 DEF DeskCallsHold
<1>6. DecisionHolds' BY <1>1, <1>2, <1>3 DEF DInv, DecisionHolds, DeskCallsHold, DeskCallHolds, Lists
<1>7. AloneHolds' BY <1>1, <1>2, <1>3 DEF DInv, AloneHolds, UnderWay, MayMeasure, DecisionHolds
<1>8. Forward BY <1>1, <1>2, <1>3 DEF DInv, DecisionHolds, Forward
<1>9. BookStep
  <2> SUFFICES ASSUME faults = {} PROVE BookStep BY DEF BookStep
  <2>1. row.status \in Book!Actionable BY <1>1 DEF DInv, AloneHolds, MayMeasure, Book!Actionable
  <2>2. Started' = Started /\ Measured' = Measured \cup {c} /\ c \notin Measured
        BY <1>1, <1>2, <1>3, BookSets DEF DInv, DeskCallsHold, DeskCallHolds, Lists
  <2> Measured \in SUBSET DeskCalls BY DEF Measured
  <2>3. Cardinality(Measured') = Cardinality(Measured) + 1 BY <2>2, BookGrows
  <2>4. \E o \in {"measured", "expected"} : row'.status = Book!StatusAfter(o)
    <3>1. CASE e = "completed" BY <1>3, <3>1 DEF Book!StatusAfter
    <3>2. CASE e = "outcome_recorded" BY <1>3, <3>2 DEF Book!StatusAfter
    <3> QED BY <3>1, <3>2
  <2> QED BY <2>1, <2>2, <2>3, <2>4 DEF BookStep, Started, Measured, Book!BookNext, Book!BookOutcome
<1> QED BY <1>4, <1>5, <1>6, <1>7, <1>8, <1>9 DEF DInv

\* A tool's row says what was done when its call is done.
LEMMA LogToolKeeps ==
    ASSUME DInv, NEW c \in DeskCalls, Run(c, "log"),
           row' = [row EXCEPT !.tool[c] = "processing"]
    PROVE  DInv' /\ Forward /\ BookStep
<1>1. /\ step[c] = "log" /\ UNCHANGED <<faults, request>> /\ request[c] \in DeskRequest
      /\ Follows(request[c].op, "log", step'[c])
      /\ step' \in [DeskCalls -> Statements] /\ (\A d \in DeskCalls : d # c => step'[d] = step[d])
      BY RunFacts DEF Statements
<1> USE DEF Follows
<1>2. TRUE OBVIOUS
<1>3. /\ row' \in DeskRow /\ row'.tool = [row.tool EXCEPT ![c] = "processing"]
      /\ UNCHANGED <<row.status, row.maker, row.action, row.execution, row.outcome, row.gaps, row.memories, row.halted>>
  <2>1. row' = [row EXCEPT !.tool = [row.tool EXCEPT ![c] = "processing"]] OBVIOUS
  <2>2. row \in DeskRow BY DEF DInv, DTypeOK
  <2>3. [row.tool EXCEPT ![c] = "processing"] \in [DeskCalls -> ToolStates]
        BY <1>1, <2>2 DEF DeskRow, DeskRequest, ToolStates
  <2> QED BY ONLY <2>1, <2>2, <2>3, RowFacts
<1>a. row'.tool[c] = "processing" /\ \A d \in DeskCalls : d # c => row'.tool[d] = row.tool[d]
      BY <1>3 DEF DInv, DTypeOK, DeskRow
<1>4. DTypeOK' BY <1>1, <1>3 DEF DInv, DTypeOK
<1>5. DeskCallsHold'
  <2>1. DeskCallHolds(c)' BY <1>1, <1>2, <1>3, <1>a DEF DInv, DeskCallsHold, DeskCallHolds, Lists
  <2>2. ASSUME NEW d \in DeskCalls, d # c PROVE DeskCallHolds(d)' BY <1>1, <1>2, <1>3, <1>a, <2>2, OthersHold
  <2> QED BY <2>1, <2>2 DEF DeskCallsHold
<1>6. DecisionHolds' BY <1>1, <1>2, <1>3, <1>a DEF DInv, DecisionHolds, DeskCallsHold, DeskCallHolds, Lists
<1>7. AloneHolds' BY <1>1, <1>2, <1>3, <1>a DEF DInv, AloneHolds, UnderWay, MayMeasure, DecisionHolds
<1>8. Forward BY <1>1, <1>2, <1>3, <1>a DEF DInv, DecisionHolds, Forward
<1>9. BookStep BY <1>1, <1>2, <1>3, <1>a, BookSame DEF DInv, DeskCallsHold, DeskCallHolds, Lists
<1> QED BY <1>4, <1>5, <1>6, <1>7, <1>8, <1>9 DEF DInv

\* An unconfirmed tool does nothing.
LEMMA DeferToolKeeps ==
    ASSUME DInv, NEW c \in DeskCalls, Run(c, "defer"),
           row' = [row EXCEPT !.tool[c] = "awaiting_confirmation"]
    PROVE  DInv' /\ Forward /\ BookStep
<1>1. /\ step[c] = "defer" /\ UNCHANGED <<faults, request>> /\ request[c] \in DeskRequest
      /\ Follows(request[c].op, "defer", step'[c])
      /\ step' \in [DeskCalls -> Statements] /\ (\A d \in DeskCalls : d # c => step'[d] = step[d])
      BY RunFacts DEF Statements
<1> USE DEF Follows
<1>2. TRUE OBVIOUS
<1>3. /\ row' \in DeskRow /\ row'.tool = [row.tool EXCEPT ![c] = "awaiting_confirmation"]
      /\ UNCHANGED <<row.status, row.maker, row.action, row.execution, row.outcome, row.gaps, row.memories, row.halted>>
  <2>1. row' = [row EXCEPT !.tool = [row.tool EXCEPT ![c] = "awaiting_confirmation"]] OBVIOUS
  <2>2. row \in DeskRow BY DEF DInv, DTypeOK
  <2>3. [row.tool EXCEPT ![c] = "awaiting_confirmation"] \in [DeskCalls -> ToolStates]
        BY <1>1, <2>2 DEF DeskRow, DeskRequest, ToolStates
  <2> QED BY ONLY <2>1, <2>2, <2>3, RowFacts
<1>a. row'.tool[c] = "awaiting_confirmation" /\ \A d \in DeskCalls : d # c => row'.tool[d] = row.tool[d]
      BY <1>3 DEF DInv, DTypeOK, DeskRow
<1>4. DTypeOK' BY <1>1, <1>3 DEF DInv, DTypeOK
<1>5. DeskCallsHold'
  <2>1. DeskCallHolds(c)' BY <1>1, <1>2, <1>3, <1>a DEF DInv, DeskCallsHold, DeskCallHolds, Lists
  <2>2. ASSUME NEW d \in DeskCalls, d # c PROVE DeskCallHolds(d)' BY <1>1, <1>2, <1>3, <1>a, <2>2, OthersHold
  <2> QED BY <2>1, <2>2 DEF DeskCallsHold
<1>6. DecisionHolds' BY <1>1, <1>2, <1>3, <1>a DEF DInv, DecisionHolds, DeskCallsHold, DeskCallHolds, Lists
<1>7. AloneHolds' BY <1>1, <1>2, <1>3, <1>a DEF DInv, AloneHolds, UnderWay, MayMeasure, DecisionHolds
<1>8. Forward BY <1>1, <1>2, <1>3, <1>a DEF DInv, DecisionHolds, Forward
<1>9. BookStep BY <1>1, <1>2, <1>3, <1>a, BookSame DEF DInv, DeskCallsHold, DeskCallHolds, Lists
<1> QED BY <1>4, <1>5, <1>6, <1>7, <1>8, <1>9 DEF DInv

\* A gap is there before its tool's row says so.
LEMMA InsertGapKeeps ==
    ASSUME DInv, NEW c \in DeskCalls, Run(c, "gap"),
           row' = [row EXCEPT !.gaps = @ \cup {c}]
    PROVE  DInv' /\ Forward /\ BookStep
<1>1. /\ step[c] = "gap" /\ UNCHANGED <<faults, request>> /\ request[c] \in DeskRequest
      /\ Follows(request[c].op, "gap", step'[c])
      /\ step' \in [DeskCalls -> Statements] /\ (\A d \in DeskCalls : d # c => step'[d] = step[d])
      BY RunFacts DEF Statements
<1> USE DEF Follows
<1>2. TRUE OBVIOUS
<1>3. /\ row' \in DeskRow /\ row'.gaps = (row.gaps \cup {c})
      /\ UNCHANGED <<row.status, row.maker, row.action, row.execution, row.outcome, row.tool, row.memories, row.halted>>
  <2>1. row' = [row EXCEPT !.gaps = (row.gaps \cup {c})] OBVIOUS
  <2>2. (row.gaps \cup {c}) \in SUBSET DeskCalls BY <1>1 DEF DInv, DTypeOK, DeskRow, DeskRequest, Statuses, ToolStates
  <2>3. row \in DeskRow BY DEF DInv, DTypeOK
  <2> QED BY ONLY <2>1, <2>2, <2>3, SetFacts
<1>4. DTypeOK' BY <1>1, <1>3 DEF DInv, DTypeOK
<1>5. DeskCallsHold'
  <2>1. DeskCallHolds(c)' BY <1>1, <1>2, <1>3 DEF DInv, DeskCallsHold, DeskCallHolds, Lists
  <2>2. ASSUME NEW d \in DeskCalls, d # c PROVE DeskCallHolds(d)' BY <1>1, <1>2, <1>3, <2>2, OthersHold
  <2> QED BY <2>1, <2>2 DEF DeskCallsHold
<1>6. DecisionHolds' BY <1>1, <1>2, <1>3 DEF DInv, DecisionHolds, DeskCallsHold, DeskCallHolds, Lists
<1>7. AloneHolds' BY <1>1, <1>2, <1>3 DEF DInv, AloneHolds, UnderWay, MayMeasure, DecisionHolds
<1>8. Forward BY <1>1, <1>2, <1>3 DEF DInv, DecisionHolds, Forward
<1>9. BookStep BY <1>1, <1>2, <1>3, BookSame DEF DInv, DeskCallsHold, DeskCallHolds, Lists
<1> QED BY <1>4, <1>5, <1>6, <1>7, <1>8, <1>9 DEF DInv

\* A tool is reported after its work.
LEMMA ReportToolKeeps ==
    ASSUME DInv, NEW c \in DeskCalls, NEW e \in {"awaiting_approval", "completed"},
           e = "completed" => row.execution[c] # "awaiting_approval", Run(c, "report"),
           row' = [row EXCEPT !.tool[c] = e]
    PROVE  DInv' /\ Forward /\ BookStep
<1>1. /\ step[c] = "report" /\ UNCHANGED <<faults, request>> /\ request[c] \in DeskRequest
      /\ Follows(request[c].op, "report", step'[c])
      /\ step' \in [DeskCalls -> Statements] /\ (\A d \in DeskCalls : d # c => step'[d] = step[d])
      BY RunFacts DEF Statements
<1> USE DEF Follows
<1>2. row.execution[c] \in {"none", "awaiting_approval", "queued"} BY DEF DInv, DTypeOK, DeskRow
<1>3. /\ row' \in DeskRow /\ row'.tool = [row.tool EXCEPT ![c] = e]
      /\ UNCHANGED <<row.status, row.maker, row.action, row.execution, row.outcome, row.gaps, row.memories, row.halted>>
  <2>1. row' = [row EXCEPT !.tool = [row.tool EXCEPT ![c] = e]] OBVIOUS
  <2>2. row \in DeskRow BY DEF DInv, DTypeOK
  <2>3. [row.tool EXCEPT ![c] = e] \in [DeskCalls -> ToolStates]
        BY <1>1, <2>2 DEF DeskRow, DeskRequest, ToolStates
  <2> QED BY ONLY <2>1, <2>2, <2>3, RowFacts
<1>a. row'.tool[c] = e /\ \A d \in DeskCalls : d # c => row'.tool[d] = row.tool[d]
      BY <1>3 DEF DInv, DTypeOK, DeskRow
<1>4. DTypeOK' BY <1>1, <1>3 DEF DInv, DTypeOK
<1>5. DeskCallsHold'
  <2>1. DeskCallHolds(c)' BY <1>1, <1>2, <1>3, <1>a DEF DInv, DeskCallsHold, DeskCallHolds, Lists
  <2>2. ASSUME NEW d \in DeskCalls, d # c PROVE DeskCallHolds(d)' BY <1>1, <1>2, <1>3, <1>a, <2>2, OthersHold
  <2> QED BY <2>1, <2>2 DEF DeskCallsHold
<1>6. DecisionHolds' BY <1>1, <1>2, <1>3, <1>a DEF DInv, DecisionHolds, DeskCallsHold, DeskCallHolds, Lists
<1>7. AloneHolds' BY <1>1, <1>2, <1>3, <1>a DEF DInv, AloneHolds, UnderWay, MayMeasure, DecisionHolds
<1>8. Forward BY <1>1, <1>2, <1>3, <1>a DEF DInv, DecisionHolds, Forward
<1>9. BookStep
  <2> SUFFICES ASSUME faults = {} PROVE BookStep BY DEF BookStep
  <2>1. CASE request[c].op = "gap"
        BY <1>1, <1>2, <1>3, <1>a, <2>1, BookSame DEF DInv, DeskCallsHold, DeskCallHolds, Lists
  <2>2. CASE request[c].op = "tool"
    <3>1. Measured' = Measured /\ Started' = Started \cup {c} /\ c \notin Started
          BY <1>1, <1>2, <1>3, <1>a, <2>2, BookSets DEF DInv, DeskCallsHold, DeskCallHolds, Lists
    <3> Started \in SUBSET DeskCalls BY DEF Started
    <3>2. Cardinality(Started') = Cardinality(Started) + 1 BY <3>1, BookGrows
    <3> QED BY <1>3, <3>1, <3>2 DEF BookStep, Started, Measured, Book!BookNext, Book!BookTool
  <2> QED BY <1>1, <2>1, <2>2
<1> QED BY <1>4, <1>5, <1>6, <1>7, <1>8, <1>9 DEF DInv

\* The kill switch touches no call.
LEMMA HaltKeeps == ASSUME DInv, Halt PROVE DInv' /\ Forward /\ BookStep
<1>1. UNCHANGED <<faults, step, request>> /\ row' = [row EXCEPT !.halted = TRUE] BY DEF Halt
<1>2. /\ row' \in DeskRow
      /\ UNCHANGED <<row.status, row.maker, row.action, row.execution, row.outcome, row.tool, row.gaps, row.memories>>
  <2>1. row \in DeskRow BY DEF DInv, DTypeOK
  <2>2. TRUE \in BOOLEAN OBVIOUS
  <2> QED BY ONLY <1>1, <2>1, <2>2, RowFacts
<1>3. DTypeOK' BY <1>1, <1>2 DEF DInv, DTypeOK
<1>4. DeskCallsHold' BY <1>1, <1>2, OthersHold DEF DeskCallsHold
<1>5. DecisionHolds' BY <1>1, <1>2 DEF DInv, DecisionHolds
<1>6. AloneHolds' BY <1>1, <1>2 DEF DInv, AloneHolds, UnderWay, MayMeasure
<1>7. Forward BY <1>1, <1>2 DEF DInv, DecisionHolds, Forward
<1>8. BookStep BY <1>1, <1>2 DEF BookStep, Book!bookVars
<1> QED BY <1>3, <1>4, <1>5, <1>6, <1>7, <1>8 DEF DInv

\* Every step of the desk.
LEMMA DeskStep == ASSUME DInv, DNext PROVE DInv' /\ Forward /\ BookStep
<1>1. CASE Halt BY <1>1, HaltKeeps
<1>2. ASSUME NEW c \in DeskCalls,
             \/ BeginOperation(c) \/ CreateDecision(c) \/ Remember(c) \/ Approve(c) \/ AssertAutonomyAllowed(c)
             \/ ReadDecision(c) \/ ExecuteWorkflow(c) \/ Attach(c) \/ Finish(c) \/ Measure(c)
             \/ Settle(c) \/ LogTool(c) \/ DeferTool(c) \/ InsertGap(c) \/ ReportTool(c) \/ Abandon(c)
      PROVE  DInv' /\ Forward /\ BookStep
  <2>1. CASE BeginOperation(c) BY <2>1, BeginOperationKeeps
  <2>2. CASE CreateDecision(c) BY <2>2, CreateKeeps DEF CreateDecision
  <2>3. CASE Remember(c) BY <2>3, RememberKeeps DEF Remember
  <2>4. CASE Approve(c)
    <3>1. CASE Proposed BY <2>4, <3>1, ApproveKeeps DEF Approve
    <3>2. CASE ~Proposed BY <2>4, <3>2, RejectKeeps DEF Approve, Statements
    <3> QED BY <3>1, <3>2
  <2>5. CASE AssertAutonomyAllowed(c)
    <3>1. PICK s \in {"assert", "reassert"} : Reject(c, s) \/ (Run(c, s) /\ UNCHANGED row)
          BY <2>5 DEF AssertAutonomyAllowed
    <3>2. CASE Reject(c, s) BY <3>2, RejectKeeps DEF Statements
    <3>3. CASE Run(c, s) /\ UNCHANGED row BY <3>3, ReadKeeps
    <3> QED BY <3>1, <3>2, <3>3
  <2>6. CASE ReadDecision(c)
    <3>1. CASE MayAct /\ Run(c, "mayAct") /\ UNCHANGED row BY <3>1, ReadKeeps
    <3>2. CASE MayMeasure /\ Run(c, "mayMeasure") /\ UNCHANGED row BY <3>2, ReadKeeps
    <3>3. CASE Reject(c, "mayAct") BY <3>3, RejectKeeps DEF Statements
    <3>4. CASE Reject(c, "mayMeasure") BY <3>4, RejectKeeps DEF Statements
    <3> QED BY <2>6, <3>1, <3>2, <3>3, <3>4 DEF ReadDecision
  <2>7. CASE ExecuteWorkflow(c)
    <3> DEFINE state == IF request[c].workflow \in Supervised THEN "awaiting_approval" ELSE "queued"
    <3>1. CASE Run(c, "execute") /\ ~Duplicate(c) /\ row' = [row EXCEPT !.execution[c] = state]
      <4>1. state \in {"awaiting_approval", "queued"} OBVIOUS
      <4> HIDE DEF state
      <4> QED BY <3>1, <4>1, ExecuteKeeps
    <3>2. CASE Reject(c, "execute") BY <3>2, RejectKeeps DEF Statements
    <3> QED BY <2>7, <3>1, <3>2 DEF ExecuteWorkflow
  <2>8. CASE Attach(c)
    <3> DEFINE w == IF row.action = NoAction THEN request[c].workflow ELSE row.action.workflow
    <3>1. Run(c, "attach") /\ row' = [row EXCEPT !.action = [workflow |-> w, run |-> c]] BY <2>8 DEF Attach
    <3>2. request[c] \in DeskRequest BY <3>1, RunFacts DEF Statements
    <3>3. row.action = NoAction \/ row.action \in [workflow : Workflows, run : DeskCalls]
          BY DEF DInv, DTypeOK, DeskRow
    <3>4. w \in Workflows /\ (row.action = NoAction => w = request[c].workflow) BY <3>2, <3>3 DEF DeskRequest
    <3> HIDE DEF w
    <3> QED BY <3>1, <3>4, AttachKeeps
  <2>9. CASE Finish(c) BY <2>9, FinishKeeps DEF Finish
  <2>10. CASE Measure(c)
    <3>1. request[c] \in DeskRequest BY <2>10, RunFacts DEF Measure, Statements
    <3>2. request[c].outcome \in {"measured", "expected"} BY <3>1 DEF DeskRequest
    <3> QED BY <2>10, <3>2, MeasureKeeps DEF Measure
  <2>11. CASE Settle(c)
    <3> DEFINE status == Book!StatusAfter(request[c].outcome)
    <3>1. Run(c, "settle") /\ row' = [row EXCEPT !.status = status] BY <2>11 DEF Settle
    <3>2. status \in {"outcome_recorded", "completed"} BY DEF Book!StatusAfter
    <3> HIDE DEF status
    <3> QED BY <3>1, <3>2, SettleKeeps
  <2>12. CASE LogTool(c) BY <2>12, LogToolKeeps DEF LogTool
  <2>13. CASE DeferTool(c) BY <2>13, DeferToolKeeps DEF DeferTool
  <2>14. CASE InsertGap(c) BY <2>14, InsertGapKeeps DEF InsertGap
  <2>15. CASE ReportTool(c)
    <3> DEFINE state == IF row.execution[c] = "awaiting_approval" THEN "awaiting_approval" ELSE "completed"
    <3>1. Run(c, "report") /\ row' = [row EXCEPT !.tool[c] = state] BY <2>15 DEF ReportTool
    <3>2. state \in {"awaiting_approval", "completed"} /\ (state = "completed" => row.execution[c] # "awaiting_approval")
          OBVIOUS
    <3> HIDE DEF state
    <3> QED BY <3>1, <3>2, ReportToolKeeps
  <2>16. CASE Abandon(c)
    <3>1. faults # {} BY <2>16 DEF Abandon
    <3>2. PICK s \in {"remember", "approve", "mayAct", "reassert", "execute", "attach", "finish", "settle", "gap", "report"} :
              Reject(c, s)
          BY <2>16 DEF Abandon
    <3> QED BY <3>1, <3>2, RejectKeeps DEF Statements
  <2> QED BY <1>2, <2>1, <2>2, <2>3, <2>4, <2>5, <2>6, <2>7, <2>8, <2>9, <2>10, <2>11, <2>12, <2>13, <2>14, <2>15, <2>16
<1> QED BY <1>1, <1>2 DEF DNext

\* A step that is none changes nothing.
LEMMA DeskStutter == ASSUME DInv, UNCHANGED dvars PROVE DInv' /\ Forward /\ BookStep
<1>1. UNCHANGED <<faults, row, step, request>> BY DEF dvars
<1>2. DTypeOK' BY <1>1 DEF DInv, DTypeOK
<1>3. DeskCallsHold' BY <1>1, OthersHold DEF DeskCallsHold
<1>4. DecisionHolds' BY <1>1 DEF DInv, DecisionHolds
<1>5. AloneHolds' BY <1>1 DEF DInv, AloneHolds, UnderWay, MayMeasure
<1>6. Forward BY <1>1 DEF DInv, DecisionHolds, Forward
<1>7. BookStep BY <1>1 DEF BookStep, Book!bookVars
<1> QED BY <1>2, <1>3, <1>4, <1>5, <1>6, <1>7 DEF DInv

\* The invariant holds for any number of overlapping and abandoned calls.
THEOREM DecisionsHold == DSpec => []DInv
<1>1. DInv /\ [DNext]_dvars => DInv' BY DeskStep, DeskStutter
<1> QED BY <1>1, DeskInit, PTL DEF DSpec

\* What was done for a decision was done after a user approved it (store.ts
\* 972-978, 1067-1079, 1081-1098, 1121-1143).
THEOREM WorkFollowsApproval == DSpec => []WorkIsAuthorised
<1>1. ASSUME DInv PROVE WorkIsAuthorised
  <2> USE <1>1 DEF DInv
  <2>1. ASSUME NEW c \in DeskCalls
        PROVE  /\ row.execution[c] # "none" /\ request[c].op = "act" => row.maker # "none"
               /\ row.outcome[c] # "none" => row.maker # "none"
               /\ row.tool[c] = "completed" => row.execution[c] = "queued" \/ c \in row.gaps
               /\ row.tool[c] = "awaiting_confirmation" => row.execution[c] = "none"
        BY DEF DeskCallsHold, DeskCallHolds
  <2>2. row.action # NoAction => row.maker # "none" /\ row.execution[row.action.run] # "none" BY DEF DecisionHolds
  <2>3. row.action # NoAction /\ faults = {} => row.action.workflow = request[row.action.run].workflow
        BY DEF AloneHolds
  <2>4. \A c, d \in DeskCalls : c # d /\ row.execution[c] # "none" /\ row.execution[d] # "none" =>
            request[c].workflow # request[d].workflow \/ request[c].id # request[d].id
        BY DEF DecisionHolds
  <2> QED BY <2>1, <2>2, <2>3, <2>4 DEF WorkIsAuthorised
<1> QED BY <1>1, DecisionsHold, PTL

\* However calls overlap and end, a decision is approved once and by one
\* user, and never goes back to a status before its approval (store.ts
\* 1057-1079).
THEOREM ApprovalIsFinal == DSpec => ApprovedOnce
<1>1. DInv /\ [DNext]_dvars => [Forward]_dvars BY DeskStep
<1>2. DSpec => [][Forward]_dvars BY <1>1, DecisionsHold, PTL DEF DSpec
<1> QED BY <1>2 DEF ApprovedOnce, Forward

\* Calls that neither overlap nor end half-way are steps of the development
\* store's decision, or none (store.ts 455-499 and 1047-1098).
THEOREM DeskImplementsBook == DSpec => ImplementsDecisionBook
<1>1. DInit => Book!BookInit
  <2> SUFFICES ASSUME DInit PROVE Book!BookInit OBVIOUS
  <2>1. Started = {} /\ Measured = {} /\ row.status = "none" BY DEF DInit, Fresh, Started, Measured
  <2> QED BY <2>1, FS_EmptySet DEF Book!BookInit, Started, Measured
<1>2. DInv /\ [DNext]_dvars => [Book!BookNext \/ faults # {}]_Book!bookVars
  BY DeskStep, DeskStutter DEF BookStep
<1>3. DSpec => [][Book!BookNext \/ faults # {}]_Book!bookVars BY <1>2, DecisionsHold, PTL DEF DSpec
<1> QED BY <1>1, <1>3 DEF ImplementsDecisionBook, DSpec

HIDE DeskAssumption
-----------------------------------------------------------------------------
\* Sessions.

LoginSlot == [at : {"find", "verify", "refuse"}, right : BOOLEAN]
InsertSlot == [at : {"insert"}, external : BOOLEAN]
SessionSlot == [at : {"session", "user", "load", "loaded"}, token : Nat, usable : BOOLEAN]
HandlerSlot == [at : {"handler"}, usable : BOOLEAN]
SlotType == {Idle} \cup LoginSlot \cup InsertSlot \cup SessionSlot \cup HandlerSlot
SessionRow == [revoked : BOOLEAN, expires : Nat]

STypeOK ==
    /\ now \in Nat
    /\ account \in [active : BOOLEAN, failures : Nat, lockedUntil : Nat]
    /\ sessions \in Seq(SessionRow)
    /\ slot \in [Slots -> SlotType]
    /\ guessed \in Nat

Verifying == {s \in Slots : slot[s].at = "verify"}

\* An open account has fewer failures than lock it, all the guesses among
\* them, unless a lock has run out.  Those that were looked up before the
\* lock may still fail.
GuessesHold ==
    /\ ~Locked => guessed = 0 \/ (guessed <= account.failures /\ account.failures < FailureLimit)
    /\ Locked => guessed + Cardinality(Verifying) < FailureLimit + Cardinality(Slots)

\* What a request with a session knows of it, at each of its statements.
SessionKnown(s) ==
    /\ slot[s].at \in {"session", "load"} =>
           slot[s].token \in DOMAIN sessions /\ (Valid(slot[s].token) => slot[s].usable)
    /\ slot[s].at \in {"user", "loaded", "handler"} => slot[s].usable

SessionsKnown == \A s \in Slots : SessionKnown(s)

SInv == STypeOK /\ GuessesHold /\ SessionsKnown

\* What EXCEPT makes of the two kinds of records.
LEMMA AtExcept ==
    ASSUME NEW A, NEW B, NEW C, NEW r \in [at : A, token : B, usable : C], NEW x
    PROVE  [r EXCEPT !.at = x] = [at |-> x, token |-> r.token, usable |-> r.usable]
  OBVIOUS

LEMMA FailuresExcept ==
    ASSUME NEW A, NEW B, NEW C, NEW r \in [active : A, failures : B, lockedUntil : C], NEW x, NEW y
    PROVE  [r EXCEPT !.failures = x, !.lockedUntil = y] = [active |-> r.active, failures |-> x, lockedUntil |-> y]
<1>1. [r EXCEPT !.failures = x] = [active |-> r.active, failures |-> x, lockedUntil |-> r.lockedUntil]
      OBVIOUS
<1> DEFINE q == [active |-> r.active, failures |-> x, lockedUntil |-> r.lockedUntil]
<1>2. [q EXCEPT !.lockedUntil = y] = [active |-> r.active, failures |-> x, lockedUntil |-> y] OBVIOUS
<1> QED BY <1>1, <1>2

USE SessionAssumption
USE DEF STypeOK, SlotType, LoginSlot, InsertSlot, SessionSlot, HandlerSlot, Idle

\* Where a request is tells what it carries.
LEMMA SlotKinds ==
    ASSUME STypeOK, NEW s \in Slots
    PROVE  /\ slot[s].at \in {"find", "verify", "refuse"} => slot[s] \in LoginSlot
           /\ slot[s].at \in {"session", "user", "load", "loaded"} => slot[s] \in SessionSlot
<1>1. slot[s] \in SlotType OBVIOUS
<1> QED BY <1>1

\* To go on is to keep what it carries.
LEMMA GotoSession ==
    ASSUME STypeOK, NEW s \in Slots, slot[s].at \in {"session", "user", "load", "loaded"},
           NEW at \in {"session", "user", "load", "loaded"}, Goto(s, at)
    PROVE  /\ slot' = [slot EXCEPT ![s] = [at |-> at, token |-> slot[s].token, usable |-> slot[s].usable]]
           /\ slot' \in [Slots -> SlotType]
<1>1. slot[s] \in SessionSlot BY SlotKinds
<1>2. [slot[s] EXCEPT !.at = at] = [at |-> at, token |-> slot[s].token, usable |-> slot[s].usable]
      BY <1>1, AtExcept
<1>3. slot' = [slot EXCEPT ![s] = [at |-> at, token |-> slot[s].token, usable |-> slot[s].usable]]
      BY <1>2 DEF Goto
<1>4. [at |-> at, token |-> slot[s].token, usable |-> slot[s].usable] \in SlotType BY <1>1
<1> QED BY <1>3, <1>4

LEMMA ServeSound ==
    ASSUME STypeOK, NEW s \in Slots, slot[s].at \in {"session", "user", "load", "loaded"}, Serve(s)
    PROVE  slot' \in [Slots -> SlotType]
<1>1. slot[s] \in SessionSlot BY SlotKinds
<1>2. [at |-> "handler", usable |-> slot[s].usable] \in SlotType BY <1>1
<1> QED BY <1>2 DEF Serve

\* What a failure does to an active account.
LEMMA FailureAccount ==
    ASSUME STypeOK, NEW s \in Slots, RecordFailure(s), account.active
    PROVE  /\ account' \in [active : BOOLEAN, failures : Nat, lockedUntil : Nat]
           /\ account'.failures = account.failures + 1
           /\ account.failures + 1 >= FailureLimit => account'.lockedUntil = now + LockTime
           /\ account.failures + 1 < FailureLimit => account'.lockedUntil = account.lockedUntil
<1> DEFINE until == IF account.failures + 1 >= FailureLimit THEN now + LockTime ELSE account.lockedUntil
           next == [active |-> account.active, failures |-> account.failures + 1, lockedUntil |-> until]
<1>1. account' = [account EXCEPT !.failures = account.failures + 1, !.lockedUntil = until]
      BY DEF RecordFailure
<1>2. account \in [active : BOOLEAN, failures : Nat, lockedUntil : Nat] OBVIOUS
<1>3. account' = next BY ONLY <1>1, <1>2, FailuresExcept
<1>4. /\ until \in Nat /\ account.failures \in Nat /\ account.active \in BOOLEAN
      /\ account.failures + 1 >= FailureLimit => until = now + LockTime
      /\ account.failures + 1 < FailureLimit => until = account.lockedUntil
      BY <1>2
<1> HIDE DEF until
<1>5. next.failures = account.failures + 1 /\ next.lockedUntil = until OBVIOUS
<1>6. next \in [active : BOOLEAN, failures : Nat, lockedUntil : Nat] BY <1>4
<1> QED BY <1>3, <1>4, <1>5, <1>6

LEMMA GotoLogin ==
    ASSUME STypeOK, NEW s \in Slots, slot[s].at = "find", NEW at \in {"verify", "refuse"}, Goto(s, at)
    PROVE  /\ slot' = [slot EXCEPT ![s] = [at |-> at, right |-> slot[s].right]]
           /\ slot' \in [Slots -> SlotType]
<1>1. slot[s] \in LoginSlot BY SlotKinds
<1>2. [slot[s] EXCEPT !.at = at] = [at |-> at, right |-> slot[s].right] BY <1>1
<1>3. slot' = [slot EXCEPT ![s] = [at |-> at, right |-> slot[s].right]] BY <1>2 DEF Goto
<1>4. [at |-> at, right |-> slot[s].right] \in SlotType BY <1>1
<1> QED BY <1>3, <1>4

LEMMA SessionInit == SInit => SInv
<1> SUFFICES ASSUME SInit PROVE SInv OBVIOUS
<1> USE DEF SInit
<1>1. STypeOK OBVIOUS
<1>2. GuessesHold BY DEF GuessesHold, Locked
<1>3. SessionsKnown BY DEF SessionsKnown, SessionKnown
<1> QED BY <1>1, <1>2, <1>3 DEF SInv

\* Every step keeps the types.
LEMMA SessionTypes == ASSUME STypeOK, [SNext]_svars PROVE STypeOK'
<1>1. CASE UNCHANGED svars BY <1>1 DEF svars
<1>2. CASE Logout
  <2>1. PICK t \in DOMAIN sessions : sessions' = [sessions EXCEPT ![t].revoked = TRUE]
        BY <1>2 DEF Logout
  <2>2. sessions[t] \in SessionRow BY ElementOfSeq, LenProperties
  <2>3. [sessions[t] EXCEPT !.revoked = TRUE] \in SessionRow BY <2>2 DEF SessionRow
  <2>4. sessions' \in Seq(SessionRow) BY <2>1, <2>3
  <2> QED BY <1>2, <2>4 DEF Logout
<1>3. CASE SetStatus BY <1>3 DEF SetStatus
<1>4. CASE Tick BY <1>4 DEF Tick
<1>5. ASSUME NEW s \in Slots, Login(s) PROVE STypeOK' BY <1>5 DEF Login, Begin
<1>6. ASSUME NEW s \in Slots, FindLoginUser(s) PROVE STypeOK' BY <1>6, GotoLogin DEF FindLoginUser
<1>7. ASSUME NEW s \in Slots, RecordFailure(s) PROVE STypeOK'
  <2>1. CASE ~account.active BY <1>7, <2>1 DEF RecordFailure, End
  <2>2. CASE account.active
    <3>1. account'.failures = account.failures + 1 /\ account' \in [active : BOOLEAN, failures : Nat, lockedUntil : Nat]
          BY <1>7, <2>2, FailureAccount
    <3>2. slot' \in [Slots -> SlotType] /\ guessed' \in Nat /\ UNCHANGED <<now, sessions>>
          BY <1>7 DEF RecordFailure, End
    <3> QED BY <3>1, <3>2
  <2> QED BY <2>1, <2>2
<1>8. ASSUME NEW s \in Slots, RecordSuccess(s) PROVE STypeOK' BY <1>8 DEF RecordSuccess
<1>9. ASSUME NEW s \in Slots, InsertSession(s) PROVE STypeOK'
  <2>1. now + SessionTime \in Nat OBVIOUS
  <2>2. [revoked |-> FALSE, expires |-> now + SessionTime] \in SessionRow BY <2>1 DEF SessionRow
  <2>3. sessions' \in Seq(SessionRow) BY <1>9, <2>2 DEF InsertSession
  <2>4. Len(sessions') \in Nat BY <2>3, LenProperties
  <2>5. [at |-> IF slot[s].external THEN "load" ELSE "session", token |-> Len(sessions'), usable |-> TRUE] \in SessionSlot
        BY <2>4
  <2> QED BY <1>9, <2>3, <2>5 DEF InsertSession
<1>10. ASSUME NEW s \in Slots, ExchangeCode(s) PROVE STypeOK' BY <1>10 DEF ExchangeCode, Begin
<1>11. ASSUME NEW s \in Slots, Request(s) PROVE STypeOK' BY <1>11 DEF Request, Begin, Valid
<1>12. ASSUME NEW s \in Slots, ReadSession(s) PROVE STypeOK' BY <1>12, GotoSession DEF ReadSession, End
<1>13. ASSUME NEW s \in Slots, ReadUser(s) PROVE STypeOK' BY <1>13, ServeSound DEF ReadUser, End
<1>14. ASSUME NEW s \in Slots, LoadSession(s) PROVE STypeOK' BY <1>14, GotoSession, ServeSound DEF LoadSession, End
<1>15. ASSUME NEW s \in Slots, Respond(s) PROVE STypeOK' BY <1>15 DEF Respond, End
<1> QED BY <1>1, <1>2, <1>3, <1>4, <1>5, <1>6, <1>7, <1>8, <1>9, <1>10, <1>11, <1>12, <1>13, <1>14,
           <1>15 DEF SNext

\* A request that ends or leaves the verification makes room for one guess.
LEMMA VerifyingShrinks ==
    ASSUME STypeOK, STypeOK', NEW s \in Slots, slot[s].at = "verify", slot'[s].at # "verify",
           \A t \in Slots : t # s => slot'[t] = slot[t]
    PROVE  /\ Cardinality(Verifying') = Cardinality(Verifying) - 1
           /\ Cardinality(Verifying) \in Nat
<1>1. IsFiniteSet(Verifying) BY FS_Subset DEF Verifying
<1>2. Verifying' = Verifying \ {s} /\ s \in Verifying BY DEF Verifying
<1> QED BY <1>1, <1>2, FS_RemoveElement, FS_CardinalityType

\* No step but the lookup adds to those who verify.
LEMMA VerifyingKept ==
    ASSUME STypeOK, STypeOK', \A t \in Slots : slot'[t].at = "verify" => slot[t].at = "verify"
    PROVE  /\ Cardinality(Verifying') <= Cardinality(Verifying)
           /\ Cardinality(Verifying) \in Nat /\ Cardinality(Verifying') \in Nat
<1>1. IsFiniteSet(Verifying) BY FS_Subset DEF Verifying
<1>2. Verifying' \subseteq Verifying BY DEF Verifying
<1> QED BY <1>1, <1>2, FS_Subset, FS_CardinalityType

LEMMA VerifyingBounded ==
    ASSUME STypeOK
    PROVE  /\ Cardinality(Verifying) <= Cardinality(Slots)
           /\ Cardinality(Verifying) \in Nat /\ Cardinality(Slots) \in Nat
<1>1. Verifying \subseteq Slots BY DEF Verifying
<1> QED BY <1>1, FS_Subset, FS_CardinalityType

\* The step that needs the count: a wrong password that was looked up before
\* the lock uses up the room of its own request.
LEMMA GuessStep == ASSUME SInv, STypeOK', NEW s \in Slots, RecordFailure(s) PROVE GuessesHold'
<1>1. slot'[s].at # "verify" /\ (\A t \in Slots : t # s => slot'[t] = slot[t]) /\ now' = now
      BY DEF RecordFailure, End, SInv
<1>2. \A t \in Slots : slot'[t].at = "verify" => slot[t].at = "verify" BY <1>1
<1>3. /\ Cardinality(Verifying') <= Cardinality(Verifying) /\ Cardinality(Verifying) \in Nat
      /\ Cardinality(Verifying') \in Nat /\ Cardinality(Slots) \in Nat
      /\ Cardinality(Verifying) <= Cardinality(Slots)
      BY <1>2, VerifyingKept, VerifyingBounded DEF SInv
<1>4. Cardinality(Verifying') < Cardinality(Slots)
  <2>1. Verifying' \subseteq Slots \ {s} BY <1>1 DEF Verifying
  <2>2. Cardinality(Slots \ {s}) = Cardinality(Slots) - 1 /\ IsFiniteSet(Slots \ {s})
        BY FS_RemoveElement
  <2>3. Cardinality(Verifying') <= Cardinality(Slots \ {s}) BY <2>1, <2>2, FS_Subset
  <2> QED BY <2>2, <2>3, <1>3
<1>5. CASE ~account.active
  <2>1. account' = account /\ guessed' = guessed BY <1>5 DEF RecordFailure
  <2> QED BY <1>1, <1>3, <2>1 DEF SInv, GuessesHold, Locked
<1>6. CASE account.active
  <2>1. /\ account'.failures = account.failures + 1
        /\ account.failures + 1 >= FailureLimit => account'.lockedUntil = now + LockTime
        /\ account.failures + 1 < FailureLimit => account'.lockedUntil = account.lockedUntil
        BY <1>6, FailureAccount DEF SInv
  <2>2. /\ account.failures \in Nat /\ account.lockedUntil \in Nat /\ account'.lockedUntil \in Nat
        /\ now \in Nat /\ guessed \in Nat
        BY DEF SInv
  <2>3. PICK guess \in {0, 1} : guessed' = guessed + guess /\ Cardinality(Verifying') + guess <= Cardinality(Verifying)
    <3>1. CASE slot[s].at = "verify"
      <4>1. guessed' = guessed + 1 BY <1>6, <3>1 DEF RecordFailure
      <4>2. Cardinality(Verifying') = Cardinality(Verifying) - 1 BY <1>1, <3>1, VerifyingShrinks DEF SInv
      <4> QED BY <4>1, <4>2, <1>3
    <3>2. CASE slot[s].at # "verify"
      <4>1. guessed' = guessed BY <3>2, Zenon DEF RecordFailure
      <4> QED BY <4>1, <1>3, <2>2
    <3> QED BY <3>1, <3>2
  <2>4. /\ ~(account.lockedUntil > now) =>
               guessed = 0 \/ (guessed <= account.failures /\ account.failures < FailureLimit)
        /\ account.lockedUntil > now => guessed + Cardinality(Verifying) < FailureLimit + Cardinality(Slots)
        BY DEF SInv, GuessesHold, Locked
  <2>5. /\ ~(account'.lockedUntil > now) =>
               guessed' = 0 \/ (guessed' <= account'.failures /\ account'.failures < FailureLimit)
        /\ account'.lockedUntil > now => guessed' + Cardinality(Verifying') < FailureLimit + Cardinality(Slots)
    <3>1. FailureLimit \in Nat \ {0} /\ LockTime \in Nat \ {0} OBVIOUS
    <3>2. CASE account.lockedUntil > now BY ONLY <1>3, <1>4, <2>1, <2>2, <2>3, <2>4, <3>1, <3>2
    <3>3. CASE ~(account.lockedUntil > now) BY ONLY <1>3, <1>4, <2>1, <2>2, <2>3, <2>4, <3>1, <3>3
    <3> QED BY <3>2, <3>3
  <2> QED BY ONLY <1>1, <2>5 DEF GuessesHold, Locked
<1> QED BY <1>5, <1>6

LEMMA GuessesNext == ASSUME SInv, STypeOK', [SNext]_svars PROVE GuessesHold'
<1> USE DEF SInv, GuessesHold, Locked
<1>1. ASSUME \A t \in Slots : slot'[t].at = "verify" => slot[t].at = "verify",
             UNCHANGED <<now, guessed>>, account'.failures = account.failures, account'.lockedUntil = account.lockedUntil
      PROVE  GuessesHold'
  <2>1. /\ Cardinality(Verifying') <= Cardinality(Verifying) /\ Cardinality(Verifying) \in Nat
        /\ Cardinality(Verifying') \in Nat /\ Cardinality(Slots) \in Nat
        BY <1>1, VerifyingKept, VerifyingBounded
  <2> QED BY <2>1, <1>1
<1>2. CASE UNCHANGED svars BY <1>2, <1>1 DEF svars
<1>3. CASE Logout BY <1>3, <1>1 DEF Logout
<1>4. CASE SetStatus BY <1>4, <1>1 DEF SetStatus
<1>5. CASE Tick
  <2>1. UNCHANGED Verifying BY <1>5 DEF Tick, Verifying
  <2>2. /\ Cardinality(Verifying) <= Cardinality(Slots)
        /\ Cardinality(Verifying) \in Nat /\ Cardinality(Slots) \in Nat
        BY VerifyingBounded
  <2>3. /\ now' = now + 1 /\ UNCHANGED account
        /\ guessed' = IF account.lockedUntil > now /\ account.lockedUntil <= now' THEN 0 ELSE guessed
        BY <1>5 DEF Tick
  <2>4. account.lockedUntil \in Nat /\ account.failures \in Nat OBVIOUS
  <2> QED BY <2>1, <2>2, <2>3, <2>4
<1>6. ASSUME NEW s \in Slots, Login(s) PROVE GuessesHold' BY <1>6, <1>1 DEF Login, Begin
<1>7. ASSUME NEW s \in Slots, FindLoginUser(s) PROVE GuessesHold'
  <2>1. CASE MayVerify BY <1>7, <2>1 DEF FindLoginUser, MayVerify
  <2>2. CASE ~MayVerify BY <1>7, <2>2, <1>1, GotoLogin DEF FindLoginUser
  <2> QED BY <2>1, <2>2
<1>8. ASSUME NEW s \in Slots, RecordFailure(s) PROVE GuessesHold' BY <1>8, GuessStep
<1>9. ASSUME NEW s \in Slots, RecordSuccess(s) PROVE GuessesHold' BY <1>9 DEF RecordSuccess
<1>10. ASSUME NEW s \in Slots, InsertSession(s) PROVE GuessesHold' BY <1>10, <1>1 DEF InsertSession
<1>11. ASSUME NEW s \in Slots, ExchangeCode(s) PROVE GuessesHold' BY <1>11, <1>1 DEF ExchangeCode, Begin
<1>12. ASSUME NEW s \in Slots, Request(s) PROVE GuessesHold' BY <1>12, <1>1 DEF Request, Begin
<1>13. ASSUME NEW s \in Slots, ReadSession(s) PROVE GuessesHold' BY <1>13, <1>1, GotoSession DEF ReadSession, End
<1>14. ASSUME NEW s \in Slots, ReadUser(s) PROVE GuessesHold'
  <2>1. slot'[s].at # "verify" /\ \A t \in Slots : t # s => slot'[t] = slot[t]
        BY <1>14, GotoSession DEF ReadUser, Serve, End
  <2> QED BY <1>14, <2>1, <1>1 DEF ReadUser
<1>15. ASSUME NEW s \in Slots, LoadSession(s) PROVE GuessesHold'
  <2>1. slot'[s].at # "verify" /\ \A t \in Slots : t # s => slot'[t] = slot[t]
        BY <1>15, GotoSession DEF LoadSession, Serve, End
  <2> QED BY <1>15, <2>1, <1>1 DEF LoadSession
<1>16. ASSUME NEW s \in Slots, Respond(s) PROVE GuessesHold' BY <1>16, <1>1 DEF Respond, End
<1> QED BY <1>2, <1>3, <1>4, <1>5, <1>6, <1>7, <1>8, <1>9, <1>10, <1>11, <1>12, <1>13, <1>14, <1>15,
           <1>16 DEF SNext

\* A session that is not valid never becomes valid again.
LEMMA ValidityEnds ==
    ASSUME STypeOK, STypeOK', [SNext]_svars, NEW t \in DOMAIN sessions
    PROVE  t \in DOMAIN sessions' /\ (Valid(t)' => Valid(t))
<1> USE DEF Valid
<1>1. CASE UNCHANGED <<now, sessions>> BY <1>1
<1>2. CASE Logout BY <1>2 DEF Logout
<1>3. CASE Tick
  <2>1. sessions[t] \in SessionRow BY ElementOfSeq, LenProperties
  <2>2. sessions[t].expires \in Nat BY <2>1 DEF SessionRow
  <2>3. now \in Nat /\ now' = now + 1 /\ sessions' = sessions BY <1>3 DEF Tick
  <2>4. sessions[t].expires > now' => sessions[t].expires > now BY ONLY <2>2, <2>3
  <2>5. Valid(t)' => Valid(t) BY <2>3, <2>4, Zenon
  <2> QED BY <2>3, <2>5
<1>4. ASSUME NEW s \in Slots, InsertSession(s) PROVE t \in DOMAIN sessions' /\ (Valid(t)' => Valid(t))
      BY <1>4 DEF InsertSession
<1>5. CASE \E s \in Slots : \/ Login(s) \/ FindLoginUser(s) \/ RecordFailure(s) \/ RecordSuccess(s)
                            \/ ExchangeCode(s) \/ Request(s) \/ ReadSession(s) \/ ReadUser(s)
                            \/ LoadSession(s) \/ Respond(s)
      BY <1>1, <1>5 DEF Login, FindLoginUser, RecordFailure, RecordSuccess, ExchangeCode, Request,
                        ReadSession, ReadUser, LoadSession, Respond
<1>6. CASE SetStatus BY <1>1, <1>6 DEF SetStatus
<1>7. CASE UNCHANGED svars BY <1>1, <1>7 DEF svars
<1> QED BY <1>2, <1>3, <1>4, <1>5, <1>6, <1>7 DEF SNext

LEMMA SessionsNext == ASSUME SInv, STypeOK', [SNext]_svars PROVE SessionsKnown'
<1> SUFFICES ASSUME NEW u \in Slots PROVE SessionKnown(u)' BY DEF SessionsKnown
<1> USE DEF SInv
<1>a. SessionKnown(u) BY DEF SessionsKnown
<1>b. \A t \in DOMAIN sessions : t \in DOMAIN sessions' /\ (Valid(t)' => Valid(t)) BY ValidityEnds
<1>1. CASE slot'[u] = slot[u]
      BY <1>1, <1>a, <1>b DEF SessionKnown
<1> USE DEF SessionKnown
<1>2. CASE slot'[u] = Idle BY <1>2
<1>3. ASSUME NEW s \in Slots, Login(s) \/ ExchangeCode(s), slot'[s].at \notin {"session", "user", "load", "loaded", "handler"}
      PROVE  SessionKnown(u)'
      BY <1>1, <1>3 DEF Login, ExchangeCode, Begin
<1>4. ASSUME NEW s \in Slots, Login(s) PROVE SessionKnown(u)'
  <2>1. slot'[s].at \in {"idle", "find"} BY <1>4 DEF Login, Begin
  <2> QED BY <1>3, <1>4, <2>1
<1>5. ASSUME NEW s \in Slots, ExchangeCode(s) PROVE SessionKnown(u)'
  <2>1. slot'[s].at \in {"idle", "insert"} BY <1>5 DEF ExchangeCode, Begin
  <2> QED BY <1>3, <1>5, <2>1
<1>6. ASSUME NEW s \in Slots, FindLoginUser(s) PROVE SessionKnown(u)' BY <1>1, <1>6, GotoLogin DEF FindLoginUser
<1>7. ASSUME NEW s \in Slots, RecordFailure(s) \/ Respond(s) PROVE SessionKnown(u)'
      BY <1>1, <1>7 DEF RecordFailure, Respond, End
<1>8. ASSUME NEW s \in Slots, RecordSuccess(s) PROVE SessionKnown(u)' BY <1>1, <1>8 DEF RecordSuccess
<1>9. ASSUME NEW s \in Slots, InsertSession(s) PROVE SessionKnown(u)' BY <1>1, <1>9 DEF InsertSession
<1>10. ASSUME NEW s \in Slots, Request(s) PROVE SessionKnown(u)'
  <2>1. CASE u # s BY <1>1, <1>10, <2>1 DEF Request, Begin
  <2>2. CASE u = s BY <1>10, <2>2, <1>b DEF Request, Begin
  <2> QED BY <2>1, <2>2
<1>11. ASSUME NEW s \in Slots, ReadSession(s) PROVE SessionKnown(u)'
      BY <1>1, <1>a, <1>11, GotoSession DEF ReadSession, End
<1>12. ASSUME NEW s \in Slots, ReadUser(s) PROVE SessionKnown(u)'
      BY <1>1, <1>a, <1>12 DEF ReadUser, Serve, End
<1>13. ASSUME NEW s \in Slots, LoadSession(s) PROVE SessionKnown(u)'
      BY <1>1, <1>a, <1>13, GotoSession DEF LoadSession, Serve, End
<1>14. CASE Logout \/ SetStatus \/ Tick \/ UNCHANGED svars
      BY <1>1, <1>14 DEF Logout, SetStatus, Tick, svars
<1> QED BY <1>4, <1>5, <1>6, <1>7, <1>8, <1>9, <1>10, <1>11, <1>12, <1>13, <1>14 DEF SNext

LEMMA SessionInvariance == SSpec => []SInv
<1>1. SInv /\ [SNext]_svars => SInv' BY SessionTypes, GuessesNext, SessionsNext DEF SInv
<1> QED BY SessionInit, <1>1, PTL DEF SSpec

THEOREM GuessingBounded == SSpec => []GuessesBounded
<1>1. SInv => GuessesBounded
  <2> SUFFICES ASSUME SInv PROVE GuessesBounded OBVIOUS
  <2>1. /\ Cardinality(Verifying) \in Nat /\ Cardinality(Slots) \in Nat BY VerifyingBounded DEF SInv
  <2>2. Locked \in BOOLEAN BY DEF Locked
  <2> QED BY <2>1, <2>2 DEF SInv, GuessesHold, GuessesBounded
<1> QED BY <1>1, SessionInvariance, PTL

THEOREM EndedSessionsRest == SSpec => []EndedSessionsServeNothing
<1>1. SInv => EndedSessionsServeNothing BY DEF SInv, SessionsKnown, SessionKnown, EndedSessionsServeNothing
<1> QED BY <1>1, SessionInvariance, PTL

HIDE SessionAssumption
HIDE DEF STypeOK, SlotType, LoginSlot, InsertSlot, SessionSlot, HandlerSlot, Idle
-----------------------------------------------------------------------------
\* Approvals and governed actions.

USE AuthorityAssumption, NullAssumption
USE DEF AInv, ATypeOK, VerdictHasAuthority, LocksExclusive, WishesHold,
        Verdict, Decision, MayDecide, DECISION_TRANSITIONS, Unlocked

LEMMA ApprovalInit == AInit => AInv
  BY DEF AInit

LEMMA CreateStep == ASSUME AInv, NEW r \in Requests, Create(r) PROVE AInv'
  BY DEF Create

LEMMA TimeStep == ASSUME AInv, NEW r \in Requests, TimePasses(r) PROVE AInv'
  BY DEF TimePasses

LEMMA BeginStep == ASSUME AInv, NEW u \in Users, NEW r \in Requests, BeginDecide(u, r) PROVE AInv'
<1> USE DEF BeginDecide
<1>1. ATypeOK' OBVIOUS
<1>2. VerdictHasAuthority' OBVIOUS
<1>3. LocksExclusive' OBVIOUS
<1>4. WishesHold' OBVIOUS
<1> QED BY <1>1, <1>2, <1>3, <1>4

\* The only step that needs the locks: nobody else is about to write the row.
LEMMA CommitStep == ASSUME AInv, NEW u \in Users, CommitDecide(u) PROVE AInv'
<1> USE DEF CommitDecide
<1>1. ATypeOK' OBVIOUS
<1>2. VerdictHasAuthority' OBVIOUS
<1>3. LocksExclusive' OBVIOUS
<1>4. WishesHold'
  <2> SUFFICES ASSUME NEW v \in Users, deciding'[v] # NoRequest
               PROVE  MayDecide(v, deciding[v], wish[v])'
      OBVIOUS
  <2>1. v # u /\ deciding[v] # deciding[u] /\ deciding'[v] = deciding[v] OBVIOUS
  <2>2. verdict'[deciding[v]] = verdict[deciding[v]] BY <2>1
  <2> QED BY <2>1, <2>2
<1> QED BY <1>1, <1>2, <1>3, <1>4

LEMMA AbortStep == ASSUME AInv, NEW u \in Users, AbortDecide(u) PROVE AInv'
  BY DEF AbortDecide

LEMMA ExpireStep == ASSUME AInv, ExpireOverdue PROVE AInv'
<1> USE DEF ExpireOverdue, Overdue
<1>1. ATypeOK' OBVIOUS
<1>2. VerdictHasAuthority' OBVIOUS
<1>3. LocksExclusive' OBVIOUS
<1>4. WishesHold' OBVIOUS
<1> QED BY <1>1, <1>2, <1>3, <1>4

\* AInv is inductive.
LEMMA ApprovalNext == AInv /\ [ANext]_avars => AInv'
<1> SUFFICES ASSUME AInv, [ANext]_avars PROVE AInv' OBVIOUS
<1>1. CASE UNCHANGED avars BY <1>1 DEF avars
<1>2. CASE ANext
      BY <1>2, CreateStep, TimeStep, BeginStep, CommitStep, AbortStep, ExpireStep DEF ANext
<1> QED BY <1>1, <1>2

\* A verdict that was given stands, whatever the step.
LEMMA VerdictStep ==
    ASSUME AInv, [ANext]_avars, NEW r \in Requests
    PROVE  /\ verdict[r] \in {"approved", "rejected", "cancelled"} => verdict'[r] = verdict[r]
           /\ verdict[r] = "expired" => verdict'[r] \in {"expired", "cancelled"}
<1>1. CASE UNCHANGED avars BY <1>1 DEF avars
<1>2. CASE ExpireOverdue BY <1>2 DEF ExpireOverdue, Overdue
<1>3. CASE \E s \in Requests : Create(s) \/ TimePasses(s) BY <1>3 DEF Create, TimePasses
<1>4. CASE \E u \in Users : CommitDecide(u)
  <2> PICK u \in Users : CommitDecide(u) BY <1>4
  <2>1. CASE deciding[u] = r BY <2>1 DEF CommitDecide
  <2>2. CASE deciding[u] # r BY <2>2 DEF CommitDecide
  <2> QED BY <2>1, <2>2
<1>5. CASE \E u \in Users : AbortDecide(u) \/ \E s \in Requests : BeginDecide(u, s)
      BY <1>5 DEF AbortDecide, BeginDecide
<1> QED BY <1>1, <1>2, <1>3, <1>4, <1>5 DEF ANext

LEMMA ApprovalInvariance == ASpec => []AInv
  BY ApprovalInit, ApprovalNext, PTL DEF ASpec

\* Every approved, rejected or escalated request names a user who has the
\* authority to decide (approvals.ts 101).
THEOREM VerdictAuthorised == ASpec => []VerdictHasAuthority
<1>1. AInv => VerdictHasAuthority OBVIOUS
<1> QED BY <1>1, ApprovalInvariance, PTL

\* Approved, rejected and cancelled are final, expired only becomes
\* cancelled, however decisions and sweeps overlap (approvals.ts 52-57).
THEOREM VerdictFinal == ASpec => VerdictIsFinal
<1>1. AInv /\ [ANext]_avars =>
      [\A r \in Requests :
          /\ verdict[r] \in {"approved", "rejected", "cancelled"} => verdict'[r] = verdict[r]
          /\ verdict[r] = "expired" => verdict'[r] \in {"expired", "cancelled"}]_avars
      BY VerdictStep
<1> QED BY <1>1, ApprovalInvariance, PTL DEF ASpec, VerdictIsFinal

-----------------------------------------------------------------------------
(* The composition                                                         *)

USE ActionAssumption, NoneAssumption
USE DEF GInv, TypeOK, EffectsOnce, ExecutedWasApproved, EventsMatchLedger, ArchivedIffDeleted,
        CallsHold, RollbacksExclusive, ActionKeys, NoRow, Rows, NoCall, Calls, GoTo, Return,
        Transition, InverseAction

LEMMA GovernedInit == GInit => GInv
<1> SUFFICES ASSUME GInit PROVE GInv OBVIOUS
<1> USE DEF GInit
<1>1. AInv BY ApprovalInit
<1>2. TypeOK BY <1>1
<1>3. EffectsOnce /\ ExecutedWasApproved /\ EventsMatchLedger OBVIOUS
<1>4. ArchivedIffDeleted /\ CallsHold /\ RollbacksExclusive OBVIOUS
<1> QED BY <1>1, <1>2, <1>3, <1>4

\* A step of the approvals keeps what the calls rely on: approved verdicts.
LEMMA ApprovalStepKeeps == ASSUME GInv, ApprovalStep PROVE GInv'
<1>1. AInv' BY ApprovalNext DEF ApprovalStep
<1>2. \A r \in Requests : verdict[r] = "approved" => verdict'[r] = "approved"
      BY VerdictStep DEF ApprovalStep
<1> USE DEF ApprovalStep, gvars
<1>3. TypeOK' BY <1>1
<1>4. EffectsOnce' /\ EventsMatchLedger' /\ ArchivedIffDeleted' /\ RollbacksExclusive' OBVIOUS
<1>5. ExecutedWasApproved' BY <1>2
<1>6. CallsHold' BY <1>2
<1> QED BY <1>1, <1>3, <1>4, <1>5, <1>6

\* The steps of a call leave the approvals alone.
LEMMA CallKeepsApprovals == ASSUME GInv, UNCHANGED avars PROVE AInv'
  BY DEF avars

LEMMA ExecuteStep == ASSUME GInv, NEW c \in Callers, Execute(c) PROVE GInv'
<1> USE DEF Execute
<1>1. AInv' BY CallKeepsApprovals
<1> USE DEF avars
<1>2. TypeOK'
  <2>1. pc' \in [Callers -> {"idle", "approval", "lookup", "write", "rollback"}] OBVIOUS
  <2>2. call' \in [Callers -> Calls \cup {NoCall}] OBVIOUS
  <2> QED BY <1>1, <2>1, <2>2
<1>3. EffectsOnce' /\ ExecutedWasApproved' /\ EventsMatchLedger' /\ ArchivedIffDeleted' OBVIOUS
<1>4. CallsHold' OBVIOUS
<1>5. RollbacksExclusive' OBVIOUS
<1> QED BY <1>1, <1>2, <1>3, <1>4, <1>5

LEMMA AssertStep == ASSUME GInv, NEW c \in Callers, AssertApproved(c) PROVE GInv'
<1> USE DEF AssertApproved, Approved
<1>1. AInv' BY CallKeepsApprovals
<1> USE DEF avars
<1>2. TypeOK'
  <2>1. pc' \in [Callers -> {"idle", "approval", "lookup", "write", "rollback"}] OBVIOUS
  <2>2. call' \in [Callers -> Calls \cup {NoCall}] OBVIOUS
  <2> QED BY <1>1, <2>1, <2>2
<1>3. EffectsOnce' /\ ExecutedWasApproved' /\ EventsMatchLedger' /\ ArchivedIffDeleted' OBVIOUS
<1>4. CallsHold' OBVIOUS
<1>5. RollbacksExclusive' OBVIOUS
<1> QED BY <1>1, <1>2, <1>3, <1>4, <1>5

LEMMA LookupStep == ASSUME GInv, NEW c \in Callers, Lookup(c) PROVE GInv'
<1> USE DEF Lookup
<1>1. AInv' BY CallKeepsApprovals
<1> USE DEF avars
<1>2. TypeOK'
  <2>1. pc' \in [Callers -> {"idle", "approval", "lookup", "write", "rollback"}] OBVIOUS
  <2>2. call' \in [Callers -> Calls \cup {NoCall}] OBVIOUS
  <2> QED BY <1>1, <2>1, <2>2
<1>3. EffectsOnce' /\ ExecutedWasApproved' /\ EventsMatchLedger' /\ ArchivedIffDeleted' OBVIOUS
<1>4. CallsHold' OBVIOUS
<1>5. RollbacksExclusive' OBVIOUS
<1> QED BY <1>1, <1>2, <1>3, <1>4, <1>5

\* A transition leaves status and deletion mark of its document in step.
LEMMA TransitionSound ==
    ASSUME TypeOK, ArchivedIffDeleted, NEW action \in ActionKeys, NEW d \in Docs,
           Transition(action, d)
    PROVE  ArchivedIffDeleted'
<1> SUFFICES ASSUME NEW e \in Docs PROVE (docGone[e] <=> docStatus[e] = "archived")'
    OBVIOUS
<1>1. CASE e # d
  <2>1. docGone'[e] = docGone[e] /\ docStatus'[e] = docStatus[e] BY <1>1
  <2>2. docGone[e] <=> docStatus[e] = "archived" OBVIOUS
  <2> QED BY <2>1, <2>2, Zenon
<1>2. CASE e = d
  <2>1. docGone'[e] = (action = "archive_document") BY <1>2
  <2>2. docStatus'[e] = IF action = "archive_document" THEN "archived" ELSE "ready" BY <1>2
  <2>3. CASE action = "archive_document" BY <2>1, <2>2, <2>3
  <2>4. CASE action # "archive_document" BY <2>1, <2>2, <2>4
  <2> QED BY <2>3, <2>4
<1> QED BY <1>1, <1>2

LEMMA CommitExecuteStep == ASSUME GInv, NEW c \in Callers, CommitExecute(c) PROVE GInv'
<1> USE DEF CommitExecute
<1>1. AInv' BY CallKeepsApprovals
<1> USE DEF avars
<1>a. /\ call[c].doc \in Docs /\ call[c].key \in Keys /\ call[c].action \in ActionKeys
      /\ call[c].approval \in Requests \cup {NoRequest}
      OBVIOUS
<1>2. TypeOK' BY <1>1, <1>a
<1>3. EffectsOnce' BY <1>a
<1>4. ExecutedWasApproved' BY <1>a
<1>5. EventsMatchLedger'
  <2> SUFFICES ASSUME NEW k \in Keys
               PROVE  /\ <<"completed", k>> \in events' <=> ledger'[k] # NoRow
                      /\ <<"rolled_back", k>> \in events' <=> ledger'[k].status = "rolled_back"
      BY Zenon
  <2>1. CASE k = call[c].key
    <3>1. ledger'[k].status = "completed" BY <2>1
    <3>2. ledger[k].status = "none" BY <2>1
    <3>3. <<"completed", k>> \in events' /\ <<"rolled_back", k>> \notin events' BY <2>1, <3>2
    <3> QED BY <3>1, <3>3
  <2>2. CASE k # call[c].key
    <3>1. ledger'[k] = ledger[k] BY <2>2
    <3>2. <<"completed", k>> \in events' <=> <<"completed", k>> \in events BY <2>2
    <3>3. <<"rolled_back", k>> \in events' <=> <<"rolled_back", k>> \in events BY <2>2
    <3>4. /\ <<"completed", k>> \in events <=> ledger[k] # NoRow
          /\ <<"rolled_back", k>> \in events <=> ledger[k].status = "rolled_back"
          OBVIOUS
    <3> QED BY <3>1, <3>2, <3>3, <3>4, Zenon
  <2> QED BY <2>1, <2>2
<1>6. ArchivedIffDeleted' BY <1>a, TransitionSound
<1>7. CallsHold' BY <1>a
<1>8. RollbacksExclusive' OBVIOUS
<1> QED BY <1>1, <1>2, <1>3, <1>4, <1>5, <1>6, <1>7, <1>8

\* A call that ends without a write.
LEMMA ReturnStep ==
    ASSUME GInv, NEW c \in Callers, Return(c),
           UNCHANGED <<avars, docStatus, docGone, ledger, events, applied, undone>>
    PROVE  GInv'
<1>1. AInv' BY CallKeepsApprovals
<1> USE DEF avars
<1>2. TypeOK' BY <1>1
<1>3. EffectsOnce' /\ ExecutedWasApproved' /\ EventsMatchLedger' /\ ArchivedIffDeleted' OBVIOUS
<1>4. CallsHold' OBVIOUS
<1>5. RollbacksExclusive' OBVIOUS
<1> QED BY <1>1, <1>2, <1>3, <1>4, <1>5

LEMMA BeginRollbackStep ==
    ASSUME GInv, NEW c \in Callers, NEW k \in Keys, BeginRollback(c, k) PROVE GInv'
<1> USE DEF BeginRollback, RowFree
<1>1. AInv' BY CallKeepsApprovals
<1> USE DEF avars
<1>2. TypeOK' BY <1>1
<1>3. EffectsOnce' /\ ExecutedWasApproved' /\ EventsMatchLedger' /\ ArchivedIffDeleted' OBVIOUS
<1>4. CallsHold' OBVIOUS
<1>5. RollbacksExclusive' OBVIOUS
<1> QED BY <1>1, <1>2, <1>3, <1>4, <1>5

LEMMA CommitRollbackStep == ASSUME GInv, NEW c \in Callers, CommitRollback(c) PROVE GInv'
<1> USE DEF CommitRollback
<1>1. AInv' BY CallKeepsApprovals
<1> USE DEF avars
<1> DEFINE k == call[c].key
<1>a. k \in Keys /\ ledger[k].status = "completed" OBVIOUS
<1>b. ledger[k] \in Rows BY <1>a
<1>2. TypeOK' BY <1>1, <1>a, <1>b
<1>3. EffectsOnce' BY <1>a, <1>b
<1>4. ExecutedWasApproved' BY <1>a, <1>b
<1>5. EventsMatchLedger'
  <2> SUFFICES ASSUME NEW i \in Keys
               PROVE  /\ <<"completed", i>> \in events' <=> ledger'[i] # NoRow
                      /\ <<"rolled_back", i>> \in events' <=> ledger'[i].status = "rolled_back"
      BY Zenon
  <2>1. CASE i = k
    <3>1. ledger'[i].status = "rolled_back" BY <2>1, <1>a, <1>b
    <3>2. <<"rolled_back", i>> \in events' BY <2>1
    <3>3. ledger[i] # NoRow BY <2>1, <1>a
    <3>4. <<"completed", i>> \in events BY <3>3
    <3>5. <<"completed", i>> \in events' BY <3>4
    <3> QED BY <3>1, <3>2, <3>5
  <2>2. CASE i # k
    <3>1. ledger'[i] = ledger[i] BY <2>2, <1>a
    <3>2. <<"completed", i>> \in events' <=> <<"completed", i>> \in events BY <2>2
    <3>3. <<"rolled_back", i>> \in events' <=> <<"rolled_back", i>> \in events BY <2>2
    <3>4. /\ <<"completed", i>> \in events <=> ledger[i] # NoRow
          /\ <<"rolled_back", i>> \in events <=> ledger[i].status = "rolled_back"
          OBVIOUS
    <3> QED BY <3>1, <3>2, <3>3, <3>4, Zenon
  <2> QED BY <2>1, <2>2
<1>6. ArchivedIffDeleted'
  <2>1. InverseAction(ledger[k].action) \in ActionKeys /\ ledger[k].doc \in Docs BY <1>b
  <2>2. Transition(InverseAction(ledger[k].action), ledger[k].doc) OBVIOUS
  <2> QED BY <2>1, <2>2, TransitionSound
<1>7. CallsHold' BY <1>a, <1>b
<1>8. RollbacksExclusive' OBVIOUS
<1> QED BY <1>1, <1>2, <1>3, <1>4, <1>5, <1>6, <1>7, <1>8

LEMMA GovernedNext == GInv /\ [Next]_vars => GInv'
<1> SUFFICES ASSUME GInv, [Next]_vars PROVE GInv' OBVIOUS
<1>1. CASE UNCHANGED vars
  <2>1. AInv' BY <1>1, CallKeepsApprovals DEF vars
  <2>2. TypeOK' BY <1>1, <2>1 DEF vars, avars
  <2>3. EffectsOnce' /\ ExecutedWasApproved' /\ EventsMatchLedger' BY <1>1 DEF vars, avars
  <2>4. ArchivedIffDeleted' /\ CallsHold' /\ RollbacksExclusive' BY <1>1 DEF vars, avars
  <2> QED BY <2>1, <2>2, <2>3, <2>4
<1>2. CASE ApprovalStep BY <1>2, ApprovalStepKeeps
<1>3. ASSUME NEW c \in Callers, CallStep(c) PROVE GInv'
  <2>1. CASE FailExecute(c) BY <2>1, ReturnStep DEF FailExecute
  <2>2. CASE AbortRollback(c) BY <2>2, ReturnStep DEF AbortRollback
  <2> QED BY <1>3, <2>1, <2>2, ExecuteStep, AssertStep, LookupStep, CommitExecuteStep,
             BeginRollbackStep, CommitRollbackStep DEF CallStep
<1> QED BY <1>1, <1>2, <1>3 DEF Next

LEMMA GovernedInvariance == Spec => []GInv
  BY GovernedInit, GovernedNext, PTL DEF Spec

\* Every variable of the composition holds a value of its column.
THEOREM GovernedTypes == Spec => []TypeOK
<1>1. GInv => TypeOK OBVIOUS
<1> QED BY <1>1, GovernedInvariance, PTL

\* An idempotency key takes effect once and is rolled back at most once, for
\* any number of concurrent calls (actions.ts 93, 139).
THEOREM KeysApplyOnce == Spec => []EffectsOnce
<1>1. GInv => EffectsOnce OBVIOUS
<1> QED BY <1>1, GovernedInvariance, PTL

\* What needed an approval was executed under one that is still approved,
\* though it was asserted in an earlier transaction (actions.ts 88).
THEOREM ExecutionApproved == Spec => []ExecutedWasApproved
<1>1. GInv => ExecutedWasApproved OBVIOUS
<1> QED BY <1>1, GovernedInvariance, PTL

\* Outbox and ledger agree in every state (actions.ts 114).
THEOREM EventsAgree == Spec => []EventsMatchLedger
<1>1. GInv => EventsMatchLedger OBVIOUS
<1> QED BY <1>1, GovernedInvariance, PTL
=============================================================================
