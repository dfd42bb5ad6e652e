------------------------------ MODULE Meetings ------------------------------
(***************************************************************************)
(* Meeting intelligence (src/server/meetings.ts): transcripts are analysed *)
(* and stored in one transaction, and searched in three statements while   *)
(* others ingest and delete meetings.  A sentence is a record of what the  *)
(* patterns find in it, and of whether the query of the search is in it    *)
(* (in the name of its owner, too, for that is part of the sentence).      *)
(***************************************************************************)
EXTENDS Lists

CONSTANTS
    Transcripts,   \* sequences of sentences
    MeetingIds,
    LeadLength,    \* sentences that make the summary (3)
    SearchLimit    \* rows of one statement of a search (20)

ASSUME SearchLimitAssumption == SearchLimit \in Nat

VARIABLES
    meetings,   \* the meetings stored, each with its analysis and whether
                \* the query is in its title and in the text of its summary
    gone,       \* the meetings deleted
    query       \* a search: the statements left and the results

meetingVars == <<meetings, gone, query>>

MeetingInit ==
    /\ meetings = [m \in {} |-> <<>>]
    /\ gone = {}
    /\ query = [at |-> "none"]

ClassifyConfidence(s) ==
    CASE s.owner /\ s.deadline -> "high"
      [] s.owner # s.deadline -> "medium"
      [] OTHER -> "low"

Item(transcript, i) == [segment |-> i, confidence |-> ClassifyConfidence(transcript[i])]

\* A sentence that decides is no action item, whatever it commits to.
analyzeMeetingTranscript(transcript) ==
    [summary |-> {i \in DOMAIN transcript : i <= LeadLength},
     decision |-> {Item(transcript, i) : i \in {k \in DOMAIN transcript : transcript[k].decides}},
     action |-> {Item(transcript, i) : i \in {k \in DOMAIN transcript : transcript[k].commits /\ ~transcript[k].decides}}]

\* The text of a summary is its sentences, joined and cut: the query may be
\* in one and not in what is kept of it, or begin in one and end in the next.
SummaryText(transcript) ==
    LET lead == analyzeMeetingTranscript(transcript).summary
    IN {hit \in BOOLEAN : hit => Cardinality(lead) > 1 \/ \E i \in lead : transcript[i].matches}

\* One transaction stores the meeting, its transcript and every item.
ingest(m) ==
    /\ m \notin DOMAIN meetings \cup gone
    /\ \E t \in Transcripts : \E titled \in BOOLEAN, summarised \in SummaryText(t) :
           meetings' = [n \in DOMAIN meetings \cup {m} |->
               IF n # m THEN meetings[n]
               ELSE [transcript |-> t, analysis |-> analyzeMeetingTranscript(t), titled |-> titled, summarised |-> summarised]]
    /\ UNCHANGED <<gone, query>>

\* What belongs to a meeting goes with it (ON DELETE CASCADE).
deleteMeeting(m) ==
    /\ m \in DOMAIN meetings
    /\ meetings' = [n \in DOMAIN meetings \ {m} |-> meetings[n]]
    /\ gone' = gone \cup {m}
    /\ UNCHANGED query

\* Bug: the summaries are read last.
SummaryLast == <<"decision", "action", "summary">>

Statements == <<"summary", "decision", "action">>

BeginSearch ==
    /\ query.at = "none"
    /\ query' = [at |-> "read", todo |-> Statements, results |-> {}]
    /\ UNCHANGED <<meetings, gone>>

Matches(m, kind) ==
    LET said == meetings[m].transcript
    IN IF kind = "summary"
       THEN {row \in {[meeting |-> m, kind |-> kind, segment |-> 0]} : meetings[m].titled \/ meetings[m].summarised}
       ELSE {[meeting |-> m, kind |-> kind, segment |-> item.segment] :
                 item \in {d \in meetings[m].analysis[kind] : said[d.segment].matches}}

\* A statement has a LIMIT and no order.
ReadNext ==
    /\ query.at = "read"
    /\ \E rows \in Limited(UNION {Matches(m, Head(query.todo)) : m \in DOMAIN meetings}, SearchLimit) :
           query' = [at |-> IF Len(query.todo) = 1 THEN "done" ELSE "read", todo |-> Tail(query.todo),
                     results |-> query.results \cup rows]
    /\ UNCHANGED <<meetings, gone>>

\* listMeetings counts in one statement.
listMeetings ==
    [m \in DOMAIN meetings |->
        [decisions |-> meetings[m].analysis.decision, actions |-> meetings[m].analysis.action]]

MeetingNext ==
    \/ \E m \in MeetingIds : ingest(m) \/ deleteMeeting(m)
    \/ BeginSearch \/ ReadNext

MeetingSpec == MeetingInit /\ [][MeetingNext]_meetingVars
-----------------------------------------------------------------------------
\* Of a meeting that is there when a search ends, only sentences are found
\* that the analysis counts and the query is in, none of them both as a
\* decision and as an action; and if its summary was found, all of them are,
\* but for a statement that returned as many rows as its LIMIT allows
\* (meetings.ts 125-182).
MeetingsAreFoundWhole ==
    query.at = "done" =>
        \A m \in DOMAIN meetings :
            LET found(kind) == {r.segment : r \in {q \in query.results : q.meeting = m /\ q.kind = kind}}
                counted == [decision |-> listMeetings[m].decisions, action |-> listMeetings[m].actions]
                matching(kind) == {item.segment : item \in {d \in counted[kind] : meetings[m].transcript[d.segment].matches}}
                cut(kind) == Cardinality({r \in query.results : r.kind = kind}) >= SearchLimit
            IN /\ \A kind \in {"decision", "action"} :
                      /\ found(kind) \subseteq matching(kind)
                      /\ found("summary") # {} /\ ~cut(kind) => found(kind) = matching(kind)
               /\ found("decision") \cap found("action") = {}
=============================================================================
