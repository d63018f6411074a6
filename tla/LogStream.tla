------------------------------- MODULE LogStream -------------------------------
(***************************************************************************)
(* The log of one deployment on its way from the worker to a page: the     *)
(* worker's LogStreamer, the rows of deployment_logs, the server-sent      *)
(* events route of the API and the deployment page.                        *)
(*                                                                         *)
(* A line is its number.  The streamer counts in memory, publishes a line  *)
(* in Redis when it is logged and stores it later, five at a time; the     *)
(* transitions of the state machine add rows of their own, numbered by     *)
(* the count of rows, and publish nothing.  A connection subscribes,       *)
(* replays the rows after the last number the page has seen, and passes on *)
(* what is published with a larger number than any before.                 *)
(***************************************************************************)
EXTENDS Naturals, FiniteSets, FiniteSetsExt, Sequences, Functions

CONSTANTS
    MaxNumber,    \* bound: no line gets a larger number
    Batch,        \* buffered lines that start a flush, 5 in the code
    MaxFlushes,   \* bound: flushes in progress at once
    MaxRuns,      \* bound: runs of the deployment's job
    RowIdOffset,  \* rows of other deployments already in the table
    Faults        \* which faults may happen, of LogFaults

\* "crash" the worker dies; "db" a flush meets an error; "redis" a subscription fails
\* (publications wait for Redis); "break" a connection breaks, or overflows its buffer.
LogFaults == {"crash", "db", "redis", "break"}

ASSUME LogAssumption ==
    /\ {MaxNumber, Batch, MaxFlushes, MaxRuns} \subseteq Nat \ {0}
    /\ RowIdOffset \in Nat
    /\ Faults \subseteq LogFaults

VARIABLES
    rows,       \* numbers of the stored rows, mapped to the rows' ids
    over,       \* the deployment's status is terminal
    streamer,   \* the worker's LogStreamer
    conn,       \* the API's side of the page's connection
    page,       \* the deployment page
    published,  \* history variable: numbers the streamer gave out
    lost,       \* history variable: numbers of which a line was lost (see LinesAreKept)
    raced       \* history variable: see GapsHaveACause

vars == <<rows, over, streamer, conn, page, published, lost, raced>>

Numbers == 1..MaxNumber
Stored == DOMAIN rows
Count == Cardinality(Stored)
Ids == (RowIdOffset + 1)..(RowIdOffset + MaxNumber)
Labels == 0..(RowIdOffset + MaxNumber)

\* off: no run; on: a run logs; closing: its last flush is next.
StreamerStates ==
    [pc : {"off", "on", "closing"}, counter : 0..MaxNumber, buffer : SUBSET Numbers,
     flushes : SUBSET SUBSET Numbers, runs : 0..MaxRuns]

\* Named for the statement of the route that comes next; live: its listener is all
\* that is left, history: the deployment was over when the connection began.
ConnectionStates ==
    [pc : {"closed", "subscribe", "replay", "check", "live", "history"}, max : Labels,
     wire : Seq(Numbers), subscribed : BOOLEAN]

\* last: lastSequenceRef; floor: its value after the page was loaded.
PageStates ==
    [pc : {"loading", "open", "ended"}, loaded : SUBSET Numbers, streamed : Seq(Numbers),
     last : Labels, floor : Labels]

Closed == [pc |-> "closed", max |-> 0, wire |-> <<>>, subscribed |-> FALSE]

\* The handler that creates the deployment stores its first line.
Init ==
    /\ rows = [n \in {1} |-> RowIdOffset + 1]
    /\ over = FALSE
    /\ streamer = [pc |-> "off", counter |-> 0, buffer |-> {}, flushes |-> {}, runs |-> 0]
    /\ conn = Closed
    /\ page = [pc |-> "loading", loaded |-> {}, streamed |-> <<>>, last |-> 0, floor |-> 0]
    /\ published = {}
    /\ lost = {}
    /\ raced = {}

-------------------------------------------------------------------------------
(***************************************************************************)
(* Rows.                                                                   *)
(***************************************************************************)
\* The constraint on number and deployment keeps the rows there are.
AddRows(ns) ==
    LET new == ns \ Stored
    IN rows' = [n \in Stored \cup new |->
                   IF n \in Stored THEN rows[n]
                   ELSE RowIdOffset + Count + Cardinality({m \in new : m <= n})]

\* A transition with a log line, here the one of a cancel request.  Its number is
\* one more than a count of rows, which may be that of a buffered line; if a flush
\* takes it before, the transaction fails and nothing is cancelled.
Cancel ==
    /\ ~over
    /\ \E n \in Numbers \ Stored :
          /\ n <= Count + 1
          /\ AddRows({n})
          /\ lost' = lost \cup ({n} \cap published)
    /\ over' = TRUE
    /\ UNCHANGED <<streamer, conn, page, published, raced>>

-------------------------------------------------------------------------------
(***************************************************************************)
(* The streamer.                                                           *)
(***************************************************************************)
\* A run begins: the first one, or the one after a crash.
InitDeployment ==
    /\ streamer.pc = "off"
    /\ streamer.runs < MaxRuns
    /\ ~over
    /\ \E c \in {Count} \cup (IF "db" \in Faults THEN {0} ELSE {}) :
          streamer' = [streamer EXCEPT !.pc = "on", !.counter = c, !.runs = @ + 1]
    /\ UNCHANGED <<rows, over, conn, page, published, lost, raced>>

CanFlush == Cardinality(streamer.flushes) < MaxFlushes

\* The buffer becomes the flush's own, and an empty one takes its place.
Flushing(s) == [s EXCEPT !.flushes = @ \cup {s.buffer}, !.buffer = {}]

\* One line: numbered, published, buffered, flushed with the others.  Callers do
\* not wait for a flush, so that several are in progress.  (The push waits for the
\* answer to the publication; answers come in order.)  A number given out again, or
\* taken by another writer, costs one of its lines: rows with a known number are skipped.
Log ==
    LET n == streamer.counter + 1
        s == [streamer EXCEPT !.counter = n, !.buffer = @ \cup {n}]
    IN /\ streamer.pc = "on"
       /\ n \in Numbers
       /\ published' = published \cup {n}
       /\ lost' = lost \cup ({n} \cap (published \cup Stored))
       /\ Cardinality(s.buffer) >= Batch => CanFlush
       /\ streamer' = IF Cardinality(s.buffer) >= Batch THEN Flushing(s) ELSE s
       /\ conn' = IF conn.subscribed THEN [conn EXCEPT !.wire = Append(@, n)] ELSE conn
       /\ UNCHANGED <<rows, over, page, raced>>

\* Deviation: the buffer is emptied when the statement is done, with what was
\* logged in the meantime.
StoreThenEmpty(batch) ==
    /\ batch \in streamer.flushes
    /\ AddRows(batch)
    /\ streamer' = [streamer EXCEPT !.flushes = @ \ {batch}, !.buffer = {}]
    /\ UNCHANGED <<over, conn, page, published, lost, raced>>

\* createMany with skipDuplicates.
Store(batch) ==
    /\ batch \in streamer.flushes
    /\ AddRows(batch)
    /\ streamer' = [streamer EXCEPT !.flushes = @ \ {batch}]
    /\ UNCHANGED <<over, conn, page, published, lost, raced>>

\* It throws: line by line, each of which may fail.
StoreFails(batch) ==
    /\ "db" \in Faults
    /\ batch \in streamer.flushes
    /\ \E kept \in SUBSET batch :
          /\ AddRows(kept)
          /\ lost' = lost \cup (batch \ kept)
    /\ streamer' = [streamer EXCEPT !.flushes = @ \ {batch}]
    /\ UNCHANGED <<over, conn, page, published, raced>>

\* The run's last transition, READY or FAILED, which comes before its last flush.
\* If it is refused after a cancellation, or throws, the run goes on.
Finish ==
    /\ streamer.pc = "on"
    /\ over' \in {TRUE} \cup (IF "db" \in Faults THEN {over} ELSE {})
    /\ streamer' = [streamer EXCEPT !.pc = "closing"]
    /\ UNCHANGED <<rows, conn, page, published, lost, raced>>

LastFlush ==
    /\ streamer.pc = "closing"
    /\ streamer.buffer # {} => CanFlush
    /\ streamer' = LET s == [streamer EXCEPT !.pc = "off"]
                   IN IF s.buffer = {} THEN s ELSE Flushing(s)
    /\ UNCHANGED <<rows, over, conn, page, published, lost, raced>>

\* A run that sees the cancellation returns and leaves the buffer as it is.
Abort ==
    /\ streamer.pc = "on"
    /\ over
    /\ streamer' = [streamer EXCEPT !.pc = "off"]
    /\ UNCHANGED <<rows, over, conn, page, published, lost, raced>>

\* The buffer is shared by five runs: lines of another deployment fill it.
OtherLines ==
    /\ streamer.buffer # {}
    /\ CanFlush
    /\ streamer' = Flushing(streamer)
    /\ UNCHANGED <<rows, over, conn, page, published, lost, raced>>

Crash ==
    /\ "crash" \in Faults
    /\ streamer.pc # "off" \/ streamer.buffer # {} \/ streamer.flushes # {}
    /\ lost' = lost \cup streamer.buffer \cup UNION streamer.flushes
    /\ streamer' = [streamer EXCEPT !.pc = "off", !.counter = 0, !.buffer = {}, !.flushes = {}]
    /\ UNCHANGED <<rows, over, conn, page, published, raced>>

-------------------------------------------------------------------------------
(***************************************************************************)
(* The page and its connection.                                            *)
(***************************************************************************)
Largest(S) == Max(S \cup {0})

\* The members of S in ascending order: the i-th has i members up to itself.
Ascending(S) ==
    [i \in 1..Cardinality(S) |-> CHOOSE n \in S : Cardinality({m \in S : m <= n}) = i]

Shown == page.loaded \cup Range(page.streamed)

\* Deviation: the page remembers the number it expects next.
LoadNext ==
    /\ page.pc = "loading"
    /\ LET top == Largest(Range(rows)) + 1
       IN page' = [page EXCEPT !.pc = IF over THEN "ended" ELSE "open",
                               !.loaded = Stored, !.last = top, !.floor = top]
    /\ UNCHANGED <<rows, over, streamer, conn, published, lost, raced>>

\* The API answers with the rows' ids and the page takes them for numbers.
Load ==
    /\ page.pc = "loading"
    /\ LET top == Largest(Range(rows))
       IN page' = [page EXCEPT !.pc = IF over THEN "ended" ELSE "open",
                               !.loaded = Stored, !.last = top, !.floor = top]
    /\ UNCHANGED <<rows, over, streamer, conn, published, lost, raced>>

LoadFails ==
    /\ "break" \in Faults
    /\ page.pc = "loading"
    /\ page' = [page EXCEPT !.pc = "open"]
    /\ UNCHANGED <<rows, over, streamer, conn, published, lost, raced>>

\* The first connection, and each one after a break.
Connect ==
    /\ page.pc = "open"
    /\ conn.pc = "closed"
    /\ conn' = [conn EXCEPT !.pc = IF over THEN "history" ELSE "subscribe", !.max = page.last]
    /\ UNCHANGED <<rows, over, streamer, page, published, lost, raced>>

\* The listener is attached: what Redis sent before is gone.
Subscribe ==
    /\ conn.pc = "subscribe"
    /\ conn' = [conn EXCEPT !.pc = "replay", !.subscribed = TRUE]
    /\ UNCHANGED <<rows, over, streamer, page, published, lost, raced>>

SubscribeFails ==
    /\ "redis" \in Faults
    /\ conn.pc = "subscribe"
    /\ conn' = [conn EXCEPT !.pc = "replay"]
    /\ UNCHANGED <<rows, over, streamer, page, published, lost, raced>>

\* Lines the page adds: those whose number is not the label of one it has.
Show(ns) ==
    LET labels == {rows[m] : m \in page.loaded} \cup Range(page.streamed)
    IN [page EXCEPT !.streamed = @ \o Ascending(ns \ labels), !.last = Largest(ns \cup {@})]

\* History: lines that were published and are not stored when the rows are replayed,
\* up to number top: those of before the subscription, and those on the wire that a
\* stored line with a larger number has overtaken.
Missed(top) ==
    {n \in published \ Stored : n > conn.max /\ (n \notin Range(conn.wire) \/ n < top)}

\* Deviation: the messages that came during the replay are thrown away.
ReplayEmptiesBuffer ==
    /\ conn.pc = "replay"
    /\ LET fresh == {n \in Stored : n > conn.max}
           top == Largest(fresh \cup {conn.max})
       IN /\ page' = Show(fresh)
          /\ conn' = [conn EXCEPT !.pc = "check", !.max = top, !.wire = <<>>]
          /\ raced' = raced \cup Missed(top)
    /\ UNCHANGED <<rows, over, streamer, published, lost>>

\* The rows after Last-Event-ID.  What was published since the subscription waits:
\* on the wire or, which makes no difference, in the route's buffer.
Replay ==
    /\ conn.pc = "replay"
    /\ LET fresh == {n \in Stored : n > conn.max}
           top == Largest(fresh \cup {conn.max})
       IN /\ page' = Show(fresh)
          /\ conn' = [conn EXCEPT !.pc = "check", !.max = top]
          /\ raced' = raced \cup Missed(top)
    /\ UNCHANGED <<rows, over, streamer, published, lost>>

\* Deviation: the buffer is drained without a look at what was replayed.
PassUnchecked ==
    /\ conn.pc \in {"check", "live"}
    /\ conn.wire # <<>>
    /\ page' = [page EXCEPT !.streamed = Append(@, Head(conn.wire)), !.last = Largest({@, Head(conn.wire)})]
    /\ conn' = [conn EXCEPT !.wire = Tail(@)]
    /\ UNCHANGED <<rows, over, streamer, published, lost, raced>>

\* A published line: passed on if its number is larger than all before it.
Pass ==
    /\ conn.pc \in {"check", "live"}
    /\ conn.wire # <<>>
    /\ LET n == Head(conn.wire)
       IN IF n <= conn.max
          THEN /\ conn' = [conn EXCEPT !.wire = Tail(@)]
               /\ UNCHANGED page
          ELSE /\ page' = Show({n})
               /\ conn' = [conn EXCEPT !.wire = Tail(@), !.max = n]
    /\ UNCHANGED <<rows, over, streamer, published, lost, raced>>

\* The page's answer to the event "end": it reloads, and keeps what it shows.
Ended(p) == [p EXCEPT !.pc = "ended",
                      !.loaded = IF p.loaded = {} /\ p.streamed = <<>> THEN Stored ELSE @]

\* The status is read again; nothing else ends a connection that has become live,
\* because nobody publishes the message the listener looks for.
Check ==
    /\ conn.pc = "check"
    /\ conn' = IF over THEN Closed ELSE [conn EXCEPT !.pc = "live"]
    /\ page' = IF over THEN Ended(page) ELSE page
    /\ UNCHANGED <<rows, over, streamer, published, lost, raced>>

\* A deployment that is over: the rows, and the end.
History ==
    /\ conn.pc = "history"
    /\ LET fresh == {n \in Stored : n > conn.max}
       IN /\ page' = Ended(Show(fresh))
          /\ raced' = raced \cup Missed(Largest(fresh))
    /\ conn' = Closed
    /\ UNCHANGED <<rows, over, streamer, published, lost>>

Break ==
    /\ "break" \in Faults
    /\ conn.pc # "closed"
    /\ conn' = Closed
    /\ UNCHANGED <<rows, over, streamer, page, published, lost, raced>>

-------------------------------------------------------------------------------
WorkerStep ==
    \/ InitDeployment \/ Log \/ Finish \/ LastFlush \/ Abort \/ OtherLines \/ Crash
    \/ \E batch \in SUBSET Numbers : Store(batch) \/ StoreFails(batch)

PageStep ==
    \/ Load \/ LoadFails \/ Connect \/ Subscribe \/ SubscribeFails
    \/ Replay \/ Pass \/ Check \/ History \/ Break

Next == Cancel \/ WorkerStep \/ PageStep

Spec == Init /\ [][Next]_vars

-------------------------------------------------------------------------------
(***************************************************************************)
(* Properties.                                                             *)
(***************************************************************************)
\* Types of the variables.
LogTypeOK ==
    /\ Stored \subseteq Numbers /\ Range(rows) \subseteq Ids
    /\ over \in BOOLEAN
    /\ streamer \in StreamerStates
    /\ conn \in ConnectionStates
    /\ page \in PageStates
    /\ published \cup lost \cup raced \subseteq Numbers

\* What the page gets by its connections ascends, whatever breaks in between and
\* however replayed and published lines overlap: each number once, in order.
StreamInOrder ==
    \A i, j \in DOMAIN page.streamed : i < j => page.streamed[i] < page.streamed[j]

\* Flushes that overlap with logging and with each other lose no line: a number that
\* was given out is stored, buffered or in a flush, unless the worker died, the
\* database refused it, or two lines have the number.
LinesAreKept ==
    published \subseteq Stored \cup streamer.buffer \cup (UNION streamer.flushes) \cup lost

\* A number that is missing on a page which has got further was given out, and
\* - not stored when a connection replayed the rows, because lines are stored later
\*   than they are published: either published before the connection subscribed, or
\*   overtaken by a stored line with a larger number, behind which the buffered one
\*   is dropped (raced: the replay of logs.ts is not gapless); or
\* - not above the largest row id the page loaded, which it takes for the last number
\*   it has seen (page.floor); or
\* - lost with the worker, by an error of the database or to another line of the
\*   number (lost).
\* Nothing else makes a page skip a line: not breaks, not subscriptions that fail,
\* not what is published while a connection replays, drains or is live.
GapsHaveACause ==
    \A n \in published :
        n <= page.last /\ n \notin Shown => n \in raced \/ n <= page.floor \/ n \in lost

===============================================================================
