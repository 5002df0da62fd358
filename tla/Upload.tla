------------------------------- MODULE Upload -------------------------------
(***************************************************************************)
(* Uploading one object through the hand-written GCS client                *)
(* (datasphere/internal/providers/gcs).  A small stream goes out as one    *)
(* request, retried whole; a larger one goes through a resumable session,  *)
(* a window at a time.                                                     *)
(*                                                                         *)
(* A blob is a sequence of blocks.  A request and the service's handling   *)
(* of it are one step, whose fate says what the caller hears: requests and *)
(* answers are lost, and a request its caller gave up on may still arrive. *)
(* The service is modelled from how the client reads it.  Left out: sizes  *)
(* beyond the response caps, backoff and jitter.                           *)
(***************************************************************************)
EXTENDS Integers, SequencesExt

CONSTANTS Writer,       \* uploads of the object, one PutStream call each
          Length,       \* the blocks of each one's blob
          Window,       \* blocks of a window, and of the head PutStream reads
          MaxAttempts,  \* attempts at a request or a window
          Downloads,    \* uploads whose source is the body of a download
          Nothing,      \* no object
          MaxFaults     \* bound: faults of the network, sources and callers

\* A blob is never empty: an encrypted object begins with its header.
ASSUME UploadAssumption ==
    /\ Length \in [Writer -> Nat \ {0}]
    /\ Window \in Nat \ {0} /\ MaxAttempts \in Nat \ {0} /\ MaxFaults \in Nat
    /\ Downloads \subseteq Writer
    /\ Nothing \notin Writer /\ "torn" \notin Writer

VARIABLES call,     \* each PutStream call
          session,  \* its upload session, as the service has it
          object,   \* the object's content
          late,     \* requests given up on that may still arrive
          applied,  \* history: uploads that took effect
          faults

vars == <<call, session, object, late, applied, faults>>

Unknown == -1

\* The blocks of w's blob.
Blob(w) == [i \in 1 .. Length[w] |-> <<w, i>>]

ASSUME NothingAssumption == \A w \in Writer : Nothing # Blob(w)

\* kind is what a request asks for; total is the declared length, or Unknown.
Request == [w : Writer, kind : {"put", "window", "query"}, offset : Nat, n : Nat, total : Int]

\* size is where the source said it ends; sent and attempt are uploadWindows'
\* and uploadWindow's variables.
Call == [pc : {"idle", "put", "start", "window", "query", "abort", "ok", "failed",
               "abandoned",  \* failed, and its abort was lost
               "unnamed"},   \* failed, with no name of the session it asked for
         size : Nat, sent : Nat, attempt : 0 .. MaxAttempts - 1]

TypeOK ==
    /\ call \in [Writer -> Call]
    /\ \A w \in Writer : session[w].state \in {"none", "open", "done", "gone"}
    /\ late \subseteq Request
    /\ applied \subseteq Writer
    /\ faults \in 0 .. MaxFaults

Init ==
    /\ call = [w \in Writer |-> [pc |-> "idle", size |-> 0, sent |-> 0, attempt |-> 0]]
    /\ session = [w \in Writer |-> [state |-> "none", data |-> <<>>]]
    /\ object = Nothing
    /\ late = {} /\ applied = {}
    /\ faults = 0

\* io.ReadFull reports an end of stream only when it could not fill its buffer.
Ends(w, offset) == call[w].size - offset < Window

\* What the window at sent holds, and whether it is the last.
InWindow(w) == IF Ends(w, call[w].sent) THEN call[w].size - call[w].sent ELSE Window

Total(w) == IF Ends(w, call[w].sent) THEN call[w].size ELSE Unknown

WindowRequest(w) ==
    [w |-> w, kind |-> "window", offset |-> call[w].sent, n |-> InWindow(w), total |-> Total(w)]

QueryRequest(w) == [w |-> w, kind |-> "query", offset |-> 0, n |-> 0, total |-> Total(w)]

PutRequest(w) == [w |-> w, kind |-> "put", offset |-> 0, n |-> call[w].size, total |-> call[w].size]

Current(w) ==
    CASE call[w].pc = "put"    -> PutRequest(w)
      [] call[w].pc = "window" -> WindowRequest(w)
      [] call[w].pc = "query"  -> QueryRequest(w)

-----------------------------------------------------------------------------
(* The service *)

\* What a request makes of its session when the service keeps the first k of
\* its blocks: it takes blocks only where those it has end, and the object is
\* complete once it has as many as were declared.
Kept(s, x, k) ==
    IF s.state # "open" \/ (x.n > 0 /\ x.offset # Len(s.data)) THEN s
    ELSE LET data == s.data \o SubSeq(Blob(x.w), x.offset + 1, x.offset + k) IN
           [state |-> IF k = x.n /\ Len(data) = x.total THEN "done" ELSE "open", data |-> data]

\* The answer to it: the status of the reply, and how many blocks it has.
Answer(before, after, x) ==
    [status |-> CASE after.state = "done" -> "complete"
                  [] after.state \in {"gone", "none"} -> "not found"
                  [] x.n > 0 /\ x.offset # Len(before.data) -> "refused"
                  [] OTHER -> "incomplete",
     committed |-> Len(after.data)]

\* The service handles x, keeping k blocks of it.
Handled(x, k) ==
    LET s == Kept(session[x.w], x, k) IN
      IF x.kind = "put"
        THEN /\ object' = SubSeq(Blob(x.w), 1, x.n)
             /\ applied' = applied \union {x.w}
             /\ UNCHANGED session
        ELSE /\ session' = [session EXCEPT ![x.w] = s]
             /\ IF s.state = "done" /\ session[x.w].state # "done"
                  THEN object' = s.data /\ applied' = applied \union {x.w}
                  ELSE UNCHANGED <<object, applied>>

NotHandled == UNCHANGED <<session, object, applied>>

\* A request whose caller hears nothing: it was lost, its answer was (a body
\* of it kept whole or in part), or it is still on its way.
Unheard(x) ==
    /\ faults < MaxFaults /\ faults' = faults + 1
    /\ \/ NotHandled /\ UNCHANGED late
       \/ \E k \in 0 .. x.n : Handled(x, k) /\ UNCHANGED late
       \/ NotHandled /\ late' = late \union {x}

\* A request answered, of which the service may keep only a part.
Heard(x, k) ==
    /\ Handled(x, k)
    /\ IF k = x.n THEN UNCHANGED faults ELSE faults < MaxFaults /\ faults' = faults + 1
    /\ UNCHANGED late

\* A request that arrives after its caller gave up on it.
DeliverLate(x) ==
    /\ x \in late
    /\ late' = late \ {x}
    /\ Handled(x, x.n)
    /\ UNCHANGED <<call, faults>>

-----------------------------------------------------------------------------
(* The client *)

Become(w, next) == call' = [call EXCEPT ![w] = next]

\* Where the source's reader may report the end of the stream.  A download
\* cut off by its connection reads as io.ErrUnexpectedEOF, which PutStream
\* and uploadWindows take for the end; a rekey has read the header first.
EndsAt(w) == {Length[w]} \union IF w \in Downloads THEN 1 .. Length[w] ELSE {}

\* PutStream reads the head of the stream and chooses the transport.
PutStream(w) ==
    /\ call[w].pc = "idle"
    /\ \E size \in EndsAt(w) :
         Become(w, [call[w] EXCEPT !.size = size, !.pc = IF size < Window THEN "put" ELSE "start"])
    /\ UNCHANGED <<session, object, late, applied, faults>>

\* The next attempt, or giving up after the last.
Again(c, pc, given) ==
    IF c.attempt + 1 < MaxAttempts THEN [c EXCEPT !.attempt = @ + 1, !.pc = pc]
                                   ELSE [c EXCEPT !.pc = given]

\* Put: the whole object in one request, which send repeats.
Put(w) ==
    /\ call[w].pc = "put"
    /\ \/ Heard(PutRequest(w), call[w].size) /\ Become(w, [call[w] EXCEPT !.pc = "ok"])
       \/ Unheard(PutRequest(w)) /\ Become(w, Again(call[w], "put", "failed"))

Opened(w) == [session EXCEPT ![w] = [state |-> "open", data |-> <<>>]]

\* startResumable, which is not retried.  When the request or its answer is
\* lost, or the answer has no Location, putResumable returns before there is
\* anything it could abort; the service may have opened a session, or may yet.
StartResumable(w) ==
    /\ call[w].pc = "start"
    /\ \/ /\ session' = Opened(w)
          /\ Become(w, [call[w] EXCEPT !.pc = "window"])
          /\ UNCHANGED faults
       \/ /\ faults < MaxFaults /\ faults' = faults + 1
          /\ session' \in {session, Opened(w)}
          /\ Become(w, [call[w] EXCEPT !.pc = "unnamed"])
    /\ UNCHANGED <<object, late, applied>>

\* Mutant: the last window need not be answered with a complete object.
Landed_Unfinalized(w, complete) ==
    IF complete \/ Ends(w, call[w].sent) THEN [call[w] EXCEPT !.pc = "ok"]
    ELSE [call[w] EXCEPT !.pc = "window", !.attempt = 0, !.sent = @ + InWindow(w)]

\* uploadWindows, after a window that was taken: the last one must have
\* completed the object.
Landed(w, complete) ==
    IF ~Ends(w, call[w].sent)
      THEN [call[w] EXCEPT !.pc = "window", !.attempt = 0, !.sent = @ + InWindow(w)]
      ELSE [call[w] EXCEPT !.pc = IF complete THEN "ok" ELSE "abort"]

\* uploadWindow sends its window.  A 308 means taken, however much of it.
SendWindow(w) ==
    LET x == WindowRequest(w) IN
    /\ call[w].pc = "window"
    /\ \/ \E k \in 0 .. x.n :
            /\ Heard(x, k)
            /\ LET a == Answer(session[w], session'[w], x) IN
                 Become(w, IF a.status = "complete" THEN Landed(w, TRUE)
                           ELSE IF a.status = "incomplete" THEN Landed(w, FALSE)
                           ELSE [call[w] EXCEPT !.pc = "abort"])
       \/ Unheard(x) /\ Become(w, Again(call[w], "query", "abort"))

\* Mutant: a window of which a part was kept is waited for.
Resumes_Waiting(w, committed) ==
    CASE committed = call[w].sent + InWindow(w) -> Landed(w, FALSE)
      [] committed = call[w].sent /\ InWindow(w) > 0 -> [call[w] EXCEPT !.pc = "window"]
      [] OTHER -> [call[w] EXCEPT !.pc = "query"]

\* uploadWindow, told how much the service has: send the window again, go on
\* to the next, or give up on a session it cannot resume.
Resumes(w, committed) ==
    CASE committed = call[w].sent + InWindow(w) -> Landed(w, FALSE)
      [] committed = call[w].sent /\ InWindow(w) > 0 -> [call[w] EXCEPT !.pc = "window"]
      [] OTHER -> [call[w] EXCEPT !.pc = "abort"]

\* resumableOffset, asked before a window is sent again.
QueryOffset(w) ==
    LET x == QueryRequest(w) IN
    /\ call[w].pc = "query"
    /\ \/ /\ Heard(x, 0)
          /\ LET a == Answer(session[w], session'[w], x) IN
               Become(w, CASE a.status = "complete"  -> Landed(w, TRUE)
                           [] a.status = "not found" -> [call[w] EXCEPT !.pc = "abort"]
                           [] OTHER -> Resumes(w, a.committed))
       \/ Unheard(x) /\ Become(w, Again(call[w], "query", "abort"))

\* The caller's context ends, the source fails to read, or a request is
\* refused for good; a request may be on its way.
Interrupt(w) ==
    /\ call[w].pc \in {"put", "start", "window", "query"}
    /\ faults < MaxFaults /\ faults' = faults + 1
    /\ late' \in {late, IF call[w].pc = "start" THEN late ELSE late \union {Current(w)}}
    /\ Become(w, [call[w] EXCEPT !.pc = IF @ \in {"put", "start"} THEN "failed" ELSE "abort"])
    /\ NotHandled

\* Mutant: the abort rides the caller's context, which has ended.
AbortResumable_Cancelled(w) ==
    /\ call[w].pc = "abort"
    /\ Become(w, [call[w] EXCEPT !.pc = "failed"])
    /\ UNCHANGED <<session, object, late, applied, faults>>

\* abortResumable, once, best effort.
AbortResumable(w) ==
    /\ call[w].pc = "abort"
    /\ \/ /\ session' = [session EXCEPT ![w] =
                           IF @.state = "open" THEN [@ EXCEPT !.state = "gone"] ELSE @]
          /\ Become(w, [call[w] EXCEPT !.pc = "failed"])
          /\ UNCHANGED faults
       \/ /\ faults < MaxFaults /\ faults' = faults + 1
          /\ Become(w, [call[w] EXCEPT !.pc = "abandoned"])
          /\ UNCHANGED session
    /\ UNCHANGED <<object, late, applied>>

\* The service forgets a session after a while.
Expire(w) ==
    /\ session[w].state = "open"
    /\ faults < MaxFaults /\ faults' = faults + 1
    /\ session' = [session EXCEPT ![w].state = "gone"]
    /\ UNCHANGED <<call, object, late, applied>>

ClientStep(w) ==
    \/ PutStream(w) \/ Put(w) \/ StartResumable(w)
    \/ SendWindow(w) \/ QueryOffset(w) \/ AbortResumable(w)

Next ==
    \/ \E w \in Writer : ClientStep(w) \/ Interrupt(w) \/ Expire(w)
    \/ \E x \in late : DeliverLate(x)

Spec == Init /\ [][Next]_vars

\* A call that was made goes on: requests are answered or fail.
Fairness == \A w \in Writer : WF_vars(ClientStep(w) /\ call[w].pc # "idle")

FairSpec == Spec /\ Fairness

-----------------------------------------------------------------------------
(* Correctness *)

Returned(w) == call[w].pc \in {"ok", "failed", "abandoned", "unnamed"}

\* The content the object has, if it is the whole of some upload's.
StoredAs ==
    IF object = Nothing THEN Nothing
    ELSE IF \E w \in Writer : object = Blob(w) THEN CHOOSE w \in Writer : object = Blob(w)
    ELSE "torn"

Contract ==
    INSTANCE Bucket WITH
        stored  <- StoredAs,
        begun   <- {w \in Writer : call[w].pc # "idle"},
        outcome <- [w \in Writer |-> IF call[w].pc = "ok" THEN "ok"
                                     ELSE IF Returned(w) THEN "failed" ELSE "none"]

\* The client keeps the Provider contract: through retries, partial writes,
\* lost answers and late requests, the object changes only from one upload's
\* whole content to another's, and an upload that reports success took effect.
KeepsContract == Contract!BucketSpec

\* An upload that returned has left no session open on the service, with two
\* exceptions: the one request that abandons the session was lost, or the answer
\* that names it was.  (putResumable says that "on any failure it abandons the
\* session"; of the second kind of session it never hears.)
NoSessionLeft ==
    \A w \in Writer : Returned(w) /\ session[w].state = "open" =>
        call[w].pc \in {"abandoned", "unnamed"}

\* Every upload returns, whatever is lost on the way.
UploadsReturn == \A w \in Writer : call[w].pc # "idle" ~> Returned(w)

\* "A truncated ciphertext would pass silently at write time": an object is
\* always the whole of some upload's blob.
ObjectsWhole == StoredAs # "torn"
=============================================================================
