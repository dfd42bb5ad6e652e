------------------------------- MODULE Ingest -------------------------------
(***************************************************************************)
(* What happens to the bytes of an upload: the malware scan over a socket  *)
(* to clamd (src/server/security.ts), object storage (storage.ts), the     *)
(* document's rows (store.ts), and then text extraction (extraction.ts),   *)
(* OCR (ocr.ts) and chunking (chunking.ts).  The process may end between   *)
(* two steps, and the socket's events come in any order; uploads share     *)
(* nothing but the process.                                                *)
(*                                                                         *)
(* A file is a record of its name's extension, its declared type, what is  *)
(* in it, whether it is infected, and its lines; a line has a kind and a   *)
(* number of characters.                                                   *)
(***************************************************************************)
EXTENDS Integers, SequencesExt

CONSTANTS
    UploadFiles,
    Uploads,          \* upload requests
    Deployments,      \* configurations: scanner, storage, OCR engine, production
    MaxTokens,        \* of a chunk (config.maxAiTokens)
    OverlapTokens     \* carried into the next chunk (50)

ASSUME TokenAssumption == MaxTokens \in Nat /\ OverlapTokens \in Nat
ASSUME LineAssumption ==
    \A f \in UploadFiles : f.lines \in Seq([kind : {"text", "heading", "page"}, size : Nat \ {0}])

VARIABLES
    deployed,   \* the configuration of this process
    upload,     \* the requests: where each is, its file and its socket
    objects,    \* keys in object storage
    indexed     \* what indexing made of a document: chunks, or an error

ingestVars == <<deployed, upload, objects, indexed>>

Mime == [txt |-> "txt", md |-> "md", csv |-> "csv", html |-> "html", pdf |-> "pdf", docx |-> "docx",
         xlsx |-> "xlsx", pptx |-> "pptx", png |-> "image"]
Extension == Mime @@ [markdown |-> "md", htm |-> "html", jpg |-> "image"]

IngestInit ==
    /\ deployed \in Deployments
    /\ upload = [u \in Uploads |-> [at |-> "none"]]
    /\ objects = {}
    /\ indexed = [u \in Uploads |-> <<"none">>]

Goto(u, at) == upload' = [upload EXCEPT ![u].at = at]

\* multer's filter: by the declared type or by the extension of the name.
Accepts(f) ==
    LET types == {"txt", "md", "csv", "html", "pdf", "docx", "xlsx", "pptx"} IN f.mime \in types \/ f.ext \in types

Receive(u) ==
    /\ upload[u].at = "none"
    /\ \E f \in UploadFiles : upload' = [upload EXCEPT ![u] =
           [at |-> IF Accepts(f) THEN "scan" ELSE "refused", file |-> f, data |-> "", verdict |-> "none"]]
    /\ UNCHANGED <<deployed, objects, indexed>>

\* The scanner answers, and the socket of clamd has one of its events.
Scanner == IF deployed.scanner = "clamav" THEN "clamav"
           ELSE IF deployed.scanner = "disabled-in-development" /\ ~deployed.production THEN "development" ELSE "unavailable"

Reply(u) ==
    /\ upload[u].at = "scan" /\ Scanner = "clamav" /\ upload[u].data = ""
    /\ \E data \in {"ERROR", IF upload[u].file.infected THEN "FOUND" ELSE "OK"} : upload' = [upload EXCEPT ![u].data = data]
    /\ UNCHANGED <<deployed, objects, indexed>>

\* Bug: a scan that ends with no answer counts as clean.
VerdictOpen(data, event) ==
    CASE data = "FOUND" -> "infected" [] data # "FOUND" /\ event = "end" -> "clean" [] OTHER -> "unavailable"

Verdict(data, event) ==
    CASE event \in {"error", "timeout"} -> "unavailable"
      [] event = "end" /\ data = "FOUND" -> "infected"
      [] event = "end" /\ data = "OK" -> "clean"
      [] OTHER -> "unavailable"

\* The first of end, error and timeout settles the scan.
Scan(u) ==
    /\ upload[u].at = "scan"
    /\ \E verdict \in CASE Scanner = "development" -> {"clean"}
                        [] Scanner = "unavailable" -> {"unavailable"}
                        [] OTHER -> {Verdict(upload[u].data, event) : event \in {"end", "error", "timeout"}} :
           upload' = [upload EXCEPT ![u].verdict = verdict, ![u].at = IF verdict = "clean" THEN "put" ELSE "refused"]
    /\ UNCHANGED <<deployed, objects, indexed>>

Storage == IF deployed.storage = "s3" THEN "s3"
           ELSE IF deployed.storage = "local" /\ ~deployed.production THEN "local" ELSE "unavailable"

\* The key is new; an answer that is lost leaves an object with no document.
Put(u) ==
    /\ upload[u].at = "put"
    /\ \/ Storage # "unavailable" /\ objects' = objects \cup {u} /\ (Goto(u, "create") \/ Goto(u, "refused"))
       \/ Goto(u, "refused") /\ UNCHANGED objects
    /\ UNCHANGED <<deployed, indexed>>

\* One transaction: document, version, job and outbox event.
CreateDocument(u) ==
    /\ upload[u].at = "create"
    /\ Goto(u, "document") \/ Goto(u, "refused")
    /\ UNCHANGED <<deployed, objects, indexed>>

\* The process ends: requests under way are lost, objects are not.
Crash ==
    /\ \E u \in Uploads : upload[u].at \in {"scan", "put", "create"}
    /\ upload' = [u \in Uploads |->
           IF upload[u].at \in {"scan", "put", "create"} THEN [upload[u] EXCEPT !.at = "refused"] ELSE upload[u]]
    /\ UNCHANGED <<deployed, objects, indexed>>

detectFormat(f) ==
    CASE f.mime \in DOMAIN Mime -> Mime[f.mime]
      [] f.ext \in DOMAIN Extension -> Extension[f.ext]
      [] OTHER -> "unknown"

Error(code) == <<"error", code>>

\* The text is the lines of the file, or the reason why there is none.
Recognize(f) ==
    CASE deployed.ocr = "unavailable" -> Error("OCR_UNAVAILABLE")
      [] f.lines = <<>> -> Error("OCR_NO_TEXT")
      [] OTHER -> <<"text", f.lines>>

extractText(f, format) ==
    CASE format \in {"xlsx", "pptx"} -> Error("FORMAT_PARSER_REQUIRED")
      [] format = "unknown" -> Error("UNSUPPORTED_FORMAT")
      [] format = "image" -> Recognize(f)
      [] format = "pdf" /\ f.content = "protected" -> Error("PDF_PASSWORD_PROTECTED")
      [] format = "pdf" /\ f.content \in {"damaged", "huge"} -> Error("PDF_UNREADABLE")
      [] format = "docx" /\ f.content \in {"protected", "damaged"} -> Error("DOCX")
      [] f.content = "huge" -> Error("EXTRACTION_TOO_LARGE")
      [] OTHER -> <<"text", f.lines>>

\* Four characters are about one token.
estimateTokens(size) == IF size = 0 THEN 1 ELSE (size + 3) \div 4
Cost(line) == estimateTokens(line.size)

\* The sum of w over what s lists.
Total(w, s) ==
    LET sum[n \in 0..Len(s)] == IF n = 0 THEN 0 ELSE sum[n - 1] + w[s[n]]
    IN sum[Len(s)]
Tokens(lines, s) == Total([i \in DOMAIN lines |-> Cost(lines[i])], s)

\* The lines of a chunk are joined by two characters.
Joined(lines, s) == Total([i \in DOMAIN lines |-> lines[i].size], s) + 2 * (Len(s) - 1)

\* The chunker reads lines; it keeps the numbers of those in its chunk.
Flush(lines, c) ==
    IF c.current = <<>> THEN c
    ELSE [c EXCEPT !.chunks = Append(@, [lines |-> c.current, section |-> c.section, page |-> c.page,
                                         tokens |-> estimateTokens(Joined(lines, c.current))]),
                   !.current = <<>>, !.tokens = 0]

\* The shortest end of the chunk with the tokens to carry.
OverlapTail(lines, current, total) ==
    LET n == Len(current)
        wanted == IF OverlapTokens < total THEN OverlapTokens ELSE total
        ends == {k \in 0..n : Tokens(lines, SubSeq(current, n - k + 1, n)) >= wanted}
        least == CHOOSE k \in ends : \A j \in ends : k <= j
    IN SubSeq(current, n - least + 1, n)

\* Bug: a new section begins before the chunk of the old one is closed.
ReadLineUnflushed(lines, c, i) ==
    IF lines[i].kind = "page" THEN [c EXCEPT !.page = i]
    ELSE [c EXCEPT !.section = IF lines[i].kind = "heading" THEN i ELSE @, !.current = Append(@, i), !.tokens = @ + Cost(lines[i])]

ReadLine(lines, c, i) ==
    LET line == lines[i]
        over == c.tokens + Cost(line) > MaxTokens /\ c.current # <<>>
        tail == OverlapTail(lines, c.current, c.tokens)
        room == IF over THEN [Flush(lines, c) EXCEPT !.current = tail, !.tokens = Tokens(lines, tail)] ELSE c
    IN CASE line.kind = "page" -> [c EXCEPT !.page = i]
         [] line.kind = "heading" -> [Flush(lines, c) EXCEPT !.section = i, !.current = <<i>>, !.tokens = Cost(line)]
         [] OTHER -> [room EXCEPT !.current = Append(@, i), !.tokens = @ + Cost(line)]

chunkText(lines) ==
    LET start == [chunks |-> <<>>, current |-> <<>>, tokens |-> 0, section |-> 0, page |-> 0]
        read[n \in 0..Len(lines)] == IF n = 0 THEN start ELSE ReadLine(lines, read[n - 1], n)
    IN Flush(lines, read[Len(lines)]).chunks

\* createIndexingProcessor, up to its chunks.
Index(u) ==
    /\ upload[u].at = "document" /\ u \in objects /\ indexed[u] = <<"none">>
    /\ LET f == upload[u].file
           extracted == extractText(f, detectFormat(f))
       IN indexed' = [indexed EXCEPT ![u] =
              CASE extracted[1] = "error" -> extracted
                [] extracted[2] = <<>> -> Error("EXTRACTION_EMPTY")
                [] OTHER -> <<"chunks", chunkText(extracted[2])>>]
    /\ UNCHANGED <<deployed, upload, objects>>

IngestNext ==
    \/ \E u \in Uploads : Receive(u) \/ Reply(u) \/ Scan(u) \/ Put(u) \/ CreateDocument(u) \/ Index(u)
    \/ Crash

IngestSpec == IngestInit /\ [][IngestNext]_ingestVars
-----------------------------------------------------------------------------
\* A document has an object; the object was put there after a scan said so
\* of this file, which in production is the scanner's own answer; and an
\* infected file is never stored then (index.ts 256-264, security.ts 36-108).
StoredWasScanned ==
    /\ \A u \in Uploads : upload[u].at = "document" => u \in objects
    /\ \A u \in objects :
           /\ upload[u].verdict = "clean"
           /\ deployed.production => upload[u].data = "OK" /\ ~upload[u].file.infected

\* Every line but the page markers, in order and with no gap; each chunk goes
\* on where the one before it ended or overlaps with its end.
CarryText(lines, chunks) ==
    LET said == {i \in DOMAIN lines : lines[i].kind # "page"}
        headings == {i \in said : lines[i].kind = "heading"}
        before(i) == {h \in headings : h <= i}
        \* The joints of n lines are half a token each.
        joints(n) == n \div 2
    IN /\ UNION {Range(chunks[k].lines) : k \in DOMAIN chunks} = said
       /\ \A k \in DOMAIN chunks :
              LET c == chunks[k]
                  first == c.lines[1]
                  final == Last(c.lines)
              IN /\ \A i, j \in DOMAIN c.lines : i < j => c.lines[i] < c.lines[j]
                 /\ Range(c.lines) = {i \in said : first <= i /\ i <= final}
                 /\ \A j \in 2..Len(c.lines) : c.lines[j] \notin headings
                 /\ c.section \in before(first) \cup {0} /\ \A h \in before(first) : h <= c.section
                 /\ \/ c.tokens <= MaxTokens + joints(Len(c.lines))
                    \/ \E i, j \in said :
                           c.tokens < OverlapTokens + Cost(lines[i]) + Cost(lines[j]) + joints(Len(c.lines))
                 /\ k > 1 => first >= chunks[k - 1].lines[1] /\ final > Last(chunks[k - 1].lines)

\* The chunks of a document carry its text; no heading is in the middle of
\* one, its section is that of its first line, and but for the joints of its
\* lines one longer than the limit is shorter than an overlap and two lines
\* (chunking.ts 56-121).
ChunksCarryTheText ==
    \A u \in Uploads : indexed[u][1] = "chunks" => CarryText(upload[u].file.lines, indexed[u][2])
=============================================================================
