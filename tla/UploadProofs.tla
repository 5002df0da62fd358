---------------------------- MODULE UploadProofs ----------------------------
(***************************************************************************)
(* Proofs about Upload: through every interleaving of retries, partial     *)
(* writes, lost answers and late requests the client keeps the Provider    *)
(* contract (Bucket), for every set of uploads, every length and window,   *)
(* and any number of attempts and faults.                                  *)
(***************************************************************************)
EXTENDS Upload, TLAPS, SequenceTheorems

-----------------------------------------------------------------------------
(* The inductive invariant *)

\* The first n blocks of w's blob.
Part(w, n) == SubSeq(Blob(w), 1, n)

\* Where w's call is: what its source said, and how much it went past.
CallSound(w) ==
    /\ call[w].pc = "idle" => call[w].sent = 0
    /\ call[w].pc # "idle" => call[w].size \in EndsAt(w)
    /\ call[w].sent <= call[w].size
    /\ call[w].pc = "ok" => w \in applied

\* A session has a first part of the blob, and is complete only with as much
\* as the source said there is.  It is open only once the call has begun to
\* send windows, until the call is told that it is not or gives up on it.
SessionSound(w) ==
    LET s == session[w] IN
    /\ s = [state |-> s.state, data |-> Part(w, Len(s.data))]
    /\ s.state \in {"none", "open", "done", "gone"}
    /\ Len(s.data) \in 0 .. Length[w]
    /\ s.state = "done" => Len(s.data) = call[w].size /\ w \in applied
    /\ call[w].pc \in {"idle", "put", "start"} => s.state = "none"
    /\ call[w].pc \in {"ok", "failed"} => s.state # "open"

\* What any request of w's call asks for is what its source has.
Asks(x) ==
    /\ call[x.w].pc # "idle"
    /\ x.kind = "put" => x.n = call[x.w].size
    /\ x.kind # "put" => /\ x.offset + x.n <= call[x.w].size
                         /\ x.total \in {Unknown, call[x.w].size}
    /\ x.kind = "query" => x.n = 0

\* The object is what some upload that took effect had.
ObjectSound ==
    \/ object = Nothing
    \/ \E w \in applied : object = Part(w, call[w].size) /\ call[w].pc # "idle"

UploadInv ==
    /\ TypeOK /\ ObjectSound
    /\ \A w \in Writer : CallSound(w) /\ SessionSound(w)
    /\ \A x \in late : Asks(x)
    /\ \A w \in applied : call[w].pc # "idle"
    /\ DOMAIN session = Writer

-----------------------------------------------------------------------------
(* Parts of blobs *)

\* A part of a blob has as many blocks as asked for, each in its place.
LEMMA PartIs ==
    ASSUME NEW w \in Writer, NEW n \in 0 .. Length[w]
    PROVE  /\ Part(w, n) \in Seq(Writer \X Nat) /\ Len(Part(w, n)) = n
           /\ \A i \in 1 .. n : Part(w, n)[i] = <<w, i>>
           /\ Length[w] \in Nat \ {0} /\ n \in Nat
<1>1. Length[w] \in Nat \ {0} /\ n \in Nat /\ n \in Int /\ n <= Length[w]
      BY UploadAssumption
<1>2. \A i \in 1 .. n : Blob(w)[i] = <<w, i>> /\ Blob(w)[i] \in Writer \X Nat
      BY <1>1 DEF Blob
<1>3. PICK one \in Int : one = 1 OBVIOUS
<1>4. \A i \in one .. n : Blob(w)[i] \in Writer \X Nat BY <1>2, <1>3
<1>5. /\ SubSeq(Blob(w), one, n) \in Seq(Writer \X Nat)
      /\ Len(SubSeq(Blob(w), one, n)) = IF one <= n THEN n - one + 1 ELSE 0
      /\ \A i \in 1 .. n - one + 1 : SubSeq(Blob(w), one, n)[i] = Blob(w)[one + i - 1]
  <2> HIDE DEF Blob
  <2> QED BY <1>1, <1>4, SubSeqProperties
<1>6. (IF one <= n THEN n - one + 1 ELSE 0) = n BY <1>1, <1>3
<1>7. 1 .. n - one + 1 = 1 .. n /\ \A i \in 1 .. n : one + i - 1 = i BY <1>1, <1>3
<1> QED BY <1>1, <1>2, <1>3, <1>5, <1>6, <1>7 DEF Part

\* The whole blob is its longest part.
LEMMA PartWhole ==
    ASSUME NEW w \in Writer
    PROVE  Part(w, Length[w]) = Blob(w)
<1>1. Length[w] \in Nat \ {0} /\ Length[w] \in 0 .. Length[w] BY UploadAssumption
<1>2. /\ Part(w, Length[w]) \in Seq(Writer \X Nat) /\ Len(Part(w, Length[w])) = Length[w]
      /\ \A i \in 1 .. Length[w] : Part(w, Length[w])[i] = <<w, i>>
      BY <1>1, PartIs
<1>3. DOMAIN Part(w, Length[w]) = 1 .. Length[w] /\ Part(w, Length[w]) \in [1 .. Length[w] -> Writer \X Nat]
      BY <1>2, LenProperties
<1>4. Blob(w) = [i \in 1 .. Length[w] |-> <<w, i>>] BY DEF Blob
<1> HIDE DEF Part, Blob
<1> QED BY <1>2, <1>3, <1>4

\* Blocks taken where the ones before them end make a longer part.
LEMMA PartGrows ==
    ASSUME NEW w \in Writer, NEW n \in Nat, NEW k \in Nat, n + k <= Length[w]
    PROVE  Part(w, n) \o SubSeq(Blob(w), n + 1, n + k) = Part(w, n + k)
<1>1. Length[w] \in Nat \ {0} /\ n \in 0 .. Length[w] /\ n + k \in 0 .. Length[w]
      BY UploadAssumption
<1>2. /\ Part(w, n) \in Seq(Writer \X Nat) /\ Len(Part(w, n)) = n
      /\ \A i \in 1 .. n : Part(w, n)[i] = <<w, i>>
      BY <1>1, PartIs
<1>3. /\ Part(w, n + k) \in Seq(Writer \X Nat) /\ Len(Part(w, n + k)) = n + k
      /\ \A i \in 1 .. n + k : Part(w, n + k)[i] = <<w, i>>
      BY <1>1, PartIs
<1>4. PICK a \in Int, b \in Int : a = n + 1 /\ b = n + k OBVIOUS
<1>5. \A i \in a .. b : Blob(w)[i] = <<w, i>> /\ Blob(w)[i] \in Writer \X Nat
      BY <1>1, <1>4 DEF Blob
<1>6. PICK more : more = SubSeq(Blob(w), n + 1, n + k) OBVIOUS
<1>7. /\ more \in Seq(Writer \X Nat) /\ Len(more) = k
      /\ \A i \in 1 .. k : more[i] = <<w, n + i>>
  <2>1. /\ SubSeq(Blob(w), a, b) \in Seq(Writer \X Nat)
        /\ Len(SubSeq(Blob(w), a, b)) = IF a <= b THEN b - a + 1 ELSE 0
        /\ \A i \in 1 .. b - a + 1 : SubSeq(Blob(w), a, b)[i] = Blob(w)[a + i - 1]
    <3> HIDE DEF Blob
    <3> QED BY <1>5, SubSeqProperties
  <2>2. (IF a <= b THEN b - a + 1 ELSE 0) = k /\ b - a + 1 = k BY <1>4
  <2>3. \A i \in 1 .. k : a + i - 1 = n + i /\ n + i \in a .. b BY <1>4
  <2>4. \A i \in 1 .. k : more[i] = Blob(w)[n + i]
    <3> HIDE DEF Blob
    <3> QED BY <1>4, <1>6, <2>1, <2>2, <2>3
  <2>5. more \in Seq(Writer \X Nat) /\ Len(more) = k
    <3> HIDE DEF Blob
    <3> QED BY <1>4, <1>6, <2>1, <2>2
  <2> HIDE DEF Blob
  <2> QED BY <1>5, <2>3, <2>4, <2>5
<1>8. PICK less : less = Part(w, n) OBVIOUS
<1>9. /\ less \o more \in Seq(Writer \X Nat) /\ Len(less \o more) = n + k
      /\ \A i \in 1 .. n + k : (less \o more)[i] = <<w, i>>
  <2>1. less \in Seq(Writer \X Nat) /\ Len(less) = n /\ \A i \in 1 .. n : less[i] = <<w, i>>
        BY <1>2, <1>8
  <2>2. /\ less \o more \in Seq(Writer \X Nat) /\ Len(less \o more) = n + k
        /\ \A i \in 1 .. n + k : (less \o more)[i] = IF i <= n THEN less[i] ELSE more[i - n]
        BY ZenonT(40), <2>1, <1>7, ConcatProperties
  <2>3. \A i \in 1 .. n + k : (i <= n => i \in 1 .. n) /\ (~(i <= n) => i - n \in 1 .. k /\ n + (i - n) = i)
        OBVIOUS
  <2> QED BY <2>1, <2>2, <2>3, <1>7
<1>10. PICK whole : whole = Part(w, n + k) OBVIOUS
<1>11. less \o more = whole
       BY <1>3, <1>9, <1>10, SeqEqual
<1> QED BY <1>6, <1>8, <1>10, <1>11

-----------------------------------------------------------------------------
(* What the service makes of a request *)

\* Of an open session a request makes a longer part, complete only when it has
\* what was declared; of any other, nothing.
LEMMA KeptIs ==
    ASSUME UploadInv, NEW x \in Request, Asks(x), x.kind # "put", NEW k \in 0 .. x.n
    PROVE  LET s == session[x.w]
               t == Kept(s, x, k)
           IN  \/ t = s
               \/ /\ s.state = "open" /\ t.state \in {"open", "done"}
                  /\ t = [state |-> t.state, data |-> Part(x.w, Len(t.data))]
                  /\ Len(t.data) \in 0 .. Length[x.w]
                  /\ t.state = "done" => Len(t.data) = call[x.w].size
<1> DEFINE s == session[x.w]
           t == Kept(s, x, k)
<1>1. PICK w \in Writer : w = x.w BY DEF Request
<1>2. /\ x.n \in Nat /\ x.offset \in Nat /\ k \in Nat /\ k <= x.n
      BY DEF Request
<1>3. PICK m \in 0 .. Length[w] : m = Len(s.data) /\ s.data = Part(w, m) /\ m \in Nat
  <2>1. s = [state |-> s.state, data |-> Part(w, Len(s.data))] /\ Len(s.data) \in 0 .. Length[w]
        BY <1>1 DEF UploadInv, SessionSound
  <2>2. s.data = Part(w, Len(s.data)) BY <2>1
  <2> QED BY <2>1, <2>2, UploadAssumption
<1>4. /\ call[w].size \in Nat /\ call[w].size <= Length[w] /\ Length[w] \in Nat
      /\ x.offset + x.n <= call[w].size /\ x.total \in {Unknown, call[w].size}
  <2>1. call[w].size \in EndsAt(w) /\ x.offset + x.n <= call[w].size /\ x.total \in {Unknown, call[w].size}
        BY <1>1 DEF UploadInv, CallSound, Asks
  <2>2. Length[w] \in Nat BY UploadAssumption
  <2> QED BY <2>1, <2>2 DEF EndsAt
<1>5. SUFFICES ASSUME s.state = "open", ~(x.n > 0 /\ x.offset # m)
               PROVE  /\ t.state \in {"open", "done"}
                      /\ t = [state |-> t.state, data |-> Part(w, Len(t.data))]
                      /\ Len(t.data) \in 0 .. Length[w]
                      /\ t.state = "done" => Len(t.data) = call[w].size
  <2>1. CASE s.state # "open" \/ (x.n > 0 /\ x.offset # m)
    <3>1. t = s BY <2>1, <1>3 DEF Kept
    <3> QED BY <3>1
  <2>2. CASE s.state = "open" /\ ~(x.n > 0 /\ x.offset # m)
    <3> HIDE DEF s, t
    <3> QED BY <2>2, <1>1, <1>5 DEF s, t
  <2> QED BY <2>1, <2>2
<1> DEFINE d == s.data \o SubSeq(Blob(w), x.offset + 1, x.offset + k)
<1>6. t = [state |-> IF k = x.n /\ Len(d) = x.total THEN "done" ELSE "open", data |-> d]
      BY <1>1, <1>3, <1>5 DEF Kept
<1>7. PICK n \in 0 .. Length[w] : d = Part(w, n)
  <2>1. CASE x.n > 0
    <3>1. x.offset = m /\ m + k <= Length[w] BY <1>2, <1>3, <1>4, <1>5, <2>1
    <3>2. Part(w, m) \o SubSeq(Blob(w), m + 1, m + k) = Part(w, m + k)
          BY <1>2, <1>3, <3>1, PartGrows
    <3>3. m + k \in 0 .. Length[w] BY <1>2, <1>3, <1>4, <3>1
    <3> QED BY <1>3, <3>1, <3>2, <3>3
  <2>2. CASE x.n = 0
    <3>1. k = 0 BY <1>2, <2>2
    <3>2. x.offset + 1 \in Int /\ x.offset + k \in Int /\ x.offset + k < x.offset + 1 BY <1>2, <3>1
    <3>3. SubSeq(Blob(w), x.offset + 1, x.offset + k) = <<>> BY <3>2, SubSeqEmpty
    <3>4. Part(w, m) \in Seq(Writer \X Nat) BY <1>3, PartIs
    <3>5. Part(w, m) \o <<>> = Part(w, m) BY <3>4, ConcatEmptySeq
    <3> QED BY <1>3, <3>3, <3>5
  <2>3. x.n > 0 \/ x.n = 0 BY <1>2
  <2> HIDE DEF d
  <2> QED BY <2>1, <2>2, <2>3
<1>8. Len(d) = n BY <1>7, PartIs
<1> HIDE DEF d, t
<1>9. t.data = Part(w, n) /\ Len(t.data) = n /\ t.state \in {"open", "done"}
      /\ (t.state = "done" => n = x.total) /\ t = [state |-> t.state, data |-> t.data]
      BY <1>6, <1>7, <1>8
<1>10. n # Unknown BY <1>4 DEF Unknown
<1> QED BY <1>4, <1>9, <1>10

\* What the service did in a step is about w's upload alone: its session has a
\* part of the blob, and if the object changed it is now what w's source had.
Effect(w) ==
    /\ DOMAIN session' = Writer /\ \A v \in Writer \ {w} : session'[v] = session[v]
    /\ LET t == session'[w] IN
         /\ t = [state |-> t.state, data |-> Part(w, Len(t.data))]
         /\ t.state \in {"none", "open", "done", "gone"}
         /\ Len(t.data) \in 0 .. Length[w]
         /\ t.state = "done" => Len(t.data) = call[w].size /\ w \in applied'
    /\ \/ object' = object /\ applied' = applied
       \/ object' = Part(w, call[w].size) /\ applied' = applied \union {w}

\* It opened no session.
NoneOpened(w) ==
    /\ session'[w].state = "open" => session[w].state = "open"
    /\ session[w].state = "none" => session'[w].state = "none"

\* A request that is handled has such an effect.
LEMMA HandledHas ==
    ASSUME UploadInv, NEW x \in Request, Asks(x), NEW k \in 0 .. x.n, Handled(x, k)
    PROVE  Effect(x.w) /\ NoneOpened(x.w)
<1>1. PICK w \in Writer : w = x.w BY DEF Request
<1>2. PICK s : s = session[w] OBVIOUS
<1>3. /\ s = [state |-> s.state, data |-> Part(w, Len(s.data))]
      /\ s.state \in {"none", "open", "done", "gone"} /\ Len(s.data) \in 0 .. Length[w]
      /\ s.state = "done" => Len(s.data) = call[w].size /\ w \in applied
      /\ DOMAIN session = Writer
      BY <1>2 DEF UploadInv, SessionSound
<1>4. CASE x.kind = "put"
  <2>1. object' = Part(w, call[w].size) /\ applied' = applied \union {w} /\ session' = session
        BY <1>1, <1>4 DEF Handled, Asks, Part
  <2> QED BY <1>1, <1>2, <1>3, <2>1 DEF Effect, NoneOpened
<1>5. CASE x.kind # "put"
  <2>1. PICK t : t = Kept(s, x, k) OBVIOUS
  <2>2. \/ t = s
        \/ /\ s.state = "open" /\ t.state \in {"open", "done"}
           /\ t = [state |-> t.state, data |-> Part(w, Len(t.data))]
           /\ Len(t.data) \in 0 .. Length[w]
           /\ t.state = "done" => Len(t.data) = call[w].size
        BY <1>1, <1>2, <1>5, <2>1, KeptIs
  <2>3. /\ session' = [session EXCEPT ![w] = t]
        /\ IF t.state = "done" /\ s.state # "done"
             THEN object' = t.data /\ applied' = applied \union {w}
             ELSE object' = object /\ applied' = applied
        BY <1>1, <1>2, <1>5, <2>1 DEF Handled
  <2>4. session'[w] = t /\ DOMAIN session' = Writer /\ \A v \in Writer \ {w} : session'[v] = session[v]
        BY <1>3, <2>3
  <2>5. t.state = "done" /\ s.state # "done" => t.data = Part(w, call[w].size)
        BY <2>2
  <2>6. /\ t = [state |-> t.state, data |-> Part(w, Len(t.data))]
        /\ t.state \in {"none", "open", "done", "gone"} /\ Len(t.data) \in 0 .. Length[w]
        /\ t.state = "done" => Len(t.data) = call[w].size
        BY <1>3, <2>2
  <2>7. t.state = "done" => w \in applied'
        BY <1>3, <2>2, <2>3
  <2>8. Effect(w)
        BY <2>3, <2>4, <2>5, <2>6, <2>7 DEF Effect
  <2>9. NoneOpened(w)
        BY <1>2, <2>2, <2>4 DEF NoneOpened
  <2> QED BY <1>1, <2>8, <2>9
<1> QED BY <1>4, <1>5

\* And so has a request that is not.
LEMMA NotHandledHas ==
    ASSUME UploadInv, NotHandled, NEW w \in Writer
    PROVE  Effect(w) /\ NoneOpened(w)
BY DEF UploadInv, SessionSound, NotHandled, Effect, NoneOpened

\* What a step does to w's call.
Moves(w, c) ==
    /\ call' = [call EXCEPT ![w] = c]
    /\ call[w].pc # "idle" /\ c.pc # "idle"
    /\ c = call[w] \/ ~Returned(w)
    /\ c.size = call[w].size /\ c.sent <= c.size
    /\ Effect(w)
    /\ c.pc = "ok" => w \in applied'
    /\ c.pc \in {"put", "start"} => session'[w].state = "none"
    /\ c.pc \in {"ok", "failed"} => session'[w].state # "open"
    /\ late' \subseteq Request /\ \A x \in late' : x \in late \/ Asks(x)
    /\ faults' \in 0 .. MaxFaults

\* Such a step keeps the invariant.
LEMMA MovesInv ==
    ASSUME UploadInv, NEW w \in Writer, NEW c \in Call, Moves(w, c)
    PROVE  UploadInv'
<1>1. /\ call \in [Writer -> Call] /\ applied \subseteq Writer
      BY DEF UploadInv, TypeOK
<1>2. /\ call' \in [Writer -> Call] /\ call'[w] = c
      /\ \A v \in Writer : /\ v # w => call'[v] = call[v]
                           /\ call'[v].size = call[v].size
                           /\ (call'[v].pc # "idle") <=> (call[v].pc # "idle")
      BY <1>1 DEF Moves
<1>3. applied \subseteq applied' /\ applied' \subseteq applied \union {w}
      BY DEF Moves, Effect
<1>4. TypeOK'
  <2>1. \A v \in Writer : session'[v].state \in {"none", "open", "done", "gone"}
        BY DEF Moves, Effect, UploadInv, TypeOK
  <2> QED BY <2>1, <1>1, <1>2, <1>3 DEF Moves, TypeOK
<1>5. \A v \in Writer : CallSound(v)'
  <2>1. TAKE v \in Writer
  <2>2. CASE v = w
        BY <1>2, <2>2 DEF Moves, UploadInv, CallSound, EndsAt
  <2>3. CASE v # w
        BY <1>2, <1>3, <2>3 DEF UploadInv, CallSound, EndsAt
  <2> QED BY <2>2, <2>3
<1>6. \A v \in Writer : SessionSound(v)'
  <2>1. TAKE v \in Writer
  <2>2. CASE v = w
        BY <1>2, <2>2 DEF Moves, Effect, SessionSound
  <2>3. CASE v # w
    <3>1. session'[v] = session[v] BY <2>3 DEF Moves, Effect
    <3> QED BY <1>2, <1>3, <2>3, <3>1 DEF UploadInv, SessionSound
  <2> QED BY <2>2, <2>3
<1>7. \A x \in late' : Asks(x)'
  <2>1. TAKE x \in late'
  <2>2. x.w \in Writer /\ Asks(x)
        BY DEF Moves, UploadInv, Request
  <2> QED BY <2>2, <1>2 DEF Asks
<1>8. \A v \in applied' : call'[v].pc # "idle"
      BY <1>1, <1>2, <1>3 DEF Moves, UploadInv
<1>9. ObjectSound'
  <2>1. CASE object' = object
        BY <1>1, <1>2, <1>3, <2>1 DEF UploadInv, ObjectSound
  <2>2. CASE object' = Part(w, call[w].size) /\ applied' = applied \union {w}
        BY <1>2, <2>2 DEF ObjectSound, Moves
  <2> QED BY <2>1, <2>2 DEF Moves, Effect
<1> QED BY <1>4, <1>5, <1>6, <1>7, <1>8, <1>9 DEF UploadInv, Moves, Effect

-----------------------------------------------------------------------------
(* The client's steps *)

Pcs == {"idle", "put", "start", "window", "query", "abort", "ok", "failed", "abandoned",
        "unnamed"}

\* A call of which only the program counter moved.
LEMMA CallAt ==
    ASSUME NEW d \in Call, NEW pc \in Pcs
    PROVE  /\ [d EXCEPT !.pc = pc] \in Call /\ [d EXCEPT !.pc = pc].pc = pc
           /\ [d EXCEPT !.pc = pc].size = d.size /\ [d EXCEPT !.pc = pc].sent = d.sent
BY DEF Call, Pcs

\* The next attempt, or none.
LEMMA AgainIs ==
    ASSUME NEW d \in Call, NEW pc \in Pcs, NEW given \in Pcs
    PROVE  LET e == Again(d, pc, given) IN
             e \in Call /\ e.pc \in {pc, given} /\ e.size = d.size /\ e.sent = d.sent
<1>1. MaxAttempts \in Nat \ {0} BY UploadAssumption
<1>2. CASE d.attempt + 1 < MaxAttempts
  <2>1. d.attempt + 1 \in 0 .. MaxAttempts - 1 BY <1>1, <1>2 DEF Call
  <2>2. Again(d, pc, given) = [d EXCEPT !.attempt = d.attempt + 1, !.pc = pc] BY <1>2 DEF Again
  <2> QED BY <2>1, <2>2 DEF Call, Pcs
<1>3. CASE ~(d.attempt + 1 < MaxAttempts)
  <2>1. Again(d, pc, given) = [d EXCEPT !.pc = given] BY <1>3 DEF Again
  <2> QED BY <2>1, CallAt
<1> QED BY <1>2, <1>3

\* What a call that has begun says of itself.
LEMMA CallIs ==
    ASSUME UploadInv, NEW w \in Writer, call[w].pc # "idle"
    PROVE  /\ call[w] \in Call /\ call[w].size \in Nat /\ call[w].sent \in Nat
           /\ call[w].sent <= call[w].size /\ call[w].size <= Length[w]
           /\ InWindow(w) \in Nat /\ call[w].sent + InWindow(w) <= call[w].size
           /\ Total(w) \in {Unknown, call[w].size} /\ Total(w) \in Int
<1>1. /\ call[w] \in Call /\ call[w].size \in Nat /\ call[w].sent \in Nat
      BY DEF UploadInv, TypeOK, Call
<1>2. call[w].sent <= call[w].size /\ call[w].size <= Length[w]
  <2>1. call[w].size \in EndsAt(w) /\ call[w].sent <= call[w].size
        BY DEF UploadInv, CallSound
  <2>2. Length[w] \in Nat BY UploadAssumption
  <2> QED BY <2>1, <2>2, <1>1 DEF EndsAt
<1>3. Window \in Nat BY UploadAssumption
<1>4. InWindow(w) \in Nat /\ call[w].sent + InWindow(w) <= call[w].size
      BY <1>1, <1>2, <1>3 DEF InWindow, Ends
<1>5. Total(w) \in {Unknown, call[w].size} /\ Total(w) \in Int
      BY <1>1 DEF Total, Unknown
<1> QED BY <1>1, <1>2, <1>4, <1>5

\* The requests a call makes ask for what its source has.
LEMMA RequestsAsk ==
    ASSUME UploadInv, NEW w \in Writer, call[w].pc # "idle"
    PROVE  /\ PutRequest(w) \in Request /\ Asks(PutRequest(w)) /\ PutRequest(w).w = w
           /\ WindowRequest(w) \in Request /\ Asks(WindowRequest(w)) /\ WindowRequest(w).w = w
           /\ QueryRequest(w) \in Request /\ Asks(QueryRequest(w)) /\ QueryRequest(w).w = w
<1>1. /\ call[w].size \in Nat /\ call[w].sent \in Nat
      /\ InWindow(w) \in Nat /\ call[w].sent + InWindow(w) <= call[w].size
      /\ Total(w) \in {Unknown, call[w].size} /\ Total(w) \in Int
      BY CallIs
<1>2. PutRequest(w) \in Request /\ Asks(PutRequest(w)) /\ PutRequest(w).w = w
      BY <1>1 DEF PutRequest, Request, Asks
<1>3. WindowRequest(w) \in Request /\ Asks(WindowRequest(w)) /\ WindowRequest(w).w = w
      BY <1>1 DEF WindowRequest, Request, Asks
<1>4. QueryRequest(w) \in Request /\ Asks(QueryRequest(w)) /\ QueryRequest(w).w = w
      BY <1>1 DEF QueryRequest, Request, Asks
<1> QED BY <1>2, <1>3, <1>4

\* A step in which a request was answered, or its caller heard nothing.
Sent(w) ==
    /\ Effect(w) /\ NoneOpened(w)
    /\ late' \subseteq Request /\ \A x \in late' : x \in late \/ Asks(x)
    /\ faults' \in 0 .. MaxFaults

\* What a request that reaches the service belongs to was sent, whether or not the answer is heard.
LEMMA RequestsSent ==
    ASSUME UploadInv, NEW x \in Request, Asks(x)
    PROVE  /\ Unheard(x) => Sent(x.w)
           /\ \A k \in 0 .. x.n : Heard(x, k) => Sent(x.w)
<1>1. x.w \in Writer /\ late \subseteq Request /\ faults \in 0 .. MaxFaults /\ MaxFaults \in Nat
      BY UploadAssumption DEF Request, UploadInv, TypeOK
<1>2. ASSUME Unheard(x) PROVE Sent(x.w)
  <2>1. faults' \in 0 .. MaxFaults BY <1>1, <1>2 DEF Unheard
  <2>2. late' \in {late, late \union {x}} BY <1>2 DEF Unheard
  <2>3. Effect(x.w) /\ NoneOpened(x.w)
    <3>1. CASE NotHandled BY <1>1, <3>1, NotHandledHas
    <3>2. CASE \E k \in 0 .. x.n : Handled(x, k) BY <3>2, HandledHas
    <3> QED BY <1>2, <3>1, <3>2 DEF Unheard
  <2> QED BY <1>1, <2>1, <2>2, <2>3 DEF Sent
<1>3. ASSUME NEW k \in 0 .. x.n, Heard(x, k) PROVE Sent(x.w)
  <2>1. faults' \in 0 .. MaxFaults /\ late' = late BY <1>1, <1>3 DEF Heard
  <2>2. Effect(x.w) /\ NoneOpened(x.w) BY <1>3, HandledHas DEF Heard
  <2> QED BY <1>1, <2>1, <2>2 DEF Sent
<1> QED BY <1>2, <1>3

\* After such a step a call may go on to anywhere but the start, and say that
\* it succeeded only when its upload took effect.
LEMMA SentMoves ==
    ASSUME UploadInv, NEW w \in Writer, NEW c \in Call, Sent(w), Become(w, c),
           call[w].pc \in {"put", "start", "window", "query", "abort"},
           c.pc # "idle", c.size = call[w].size, c.sent <= c.size,
           c.pc = "ok" => w \in applied' /\ session'[w].state # "open",
           c.pc \in {"put", "start", "failed"} => call[w].pc \in {"put", "start"}
    PROVE  Moves(w, c)
<1>1. ~Returned(w) BY DEF Returned
<1>2. call[w].pc \in {"put", "start"} => session[w].state = "none"
      BY DEF UploadInv, SessionSound
<1> QED BY <1>1, <1>2 DEF Moves, Sent, Become, NoneOpened

\* Where a call goes after a window that was taken.
LEMMA LandedIs ==
    ASSUME UploadInv, NEW w \in Writer, call[w].pc # "idle", NEW complete \in BOOLEAN
    PROVE  LET c == Landed(w, complete) IN
             /\ c \in Call /\ c.pc \in {"window", "ok", "abort"} /\ (c.pc = "ok" => complete)
             /\ c.size = call[w].size /\ c.sent <= c.size
<1> DEFINE c == Landed(w, complete)
<1>1. PICK d \in Call : d = call[w] /\ d.sent <= d.size /\ d.sent \in Nat /\ d.size \in Nat
      BY CallIs
<1>2. PICK next \in Nat : next = d.sent + InWindow(w) /\ next <= d.size
      BY <1>1, CallIs
<1>3. CASE ~Ends(w, call[w].sent)
  <2>1. c = [d EXCEPT !.pc = "window", !.attempt = 0, !.sent = next]
        BY <1>1, <1>2, <1>3 DEF Landed
  <2>2. 0 \in 0 .. MaxAttempts - 1 BY UploadAssumption
  <2>3. c \in Call /\ c.pc = "window" /\ c.size = d.size /\ c.sent = next
        BY <2>1, <2>2 DEF Call
  <2> QED BY <1>1, <1>2, <2>3
<1>4. CASE Ends(w, call[w].sent)
  <2>1. PICK pc \in {"ok", "abort"} : pc = (IF complete THEN "ok" ELSE "abort") /\ (pc = "ok" => complete)
        OBVIOUS
  <2>2. c = [d EXCEPT !.pc = pc]
        BY <1>1, <1>4, <2>1 DEF Landed
  <2>4. pc \in Pcs BY DEF Pcs
  <2>3. c \in Call /\ c.pc = pc /\ c.size = d.size /\ c.sent = d.sent
        BY <2>2, <2>4, CallAt
  <2> QED BY <1>1, <2>1, <2>3
<1> QED BY <1>3, <1>4

\* Put.
LEMMA PutMoves ==
    ASSUME UploadInv, NEW w \in Writer, Put(w)
    PROVE  \E c \in Call : Moves(w, c)
<1>1. PICK d \in Call : d = call[w] /\ d.pc = "put" /\ d.sent <= d.size
      BY CallIs DEF Put
<1>2. PICK x \in Request : x = PutRequest(w) /\ Asks(x) /\ x.w = w
      BY <1>1, RequestsAsk
<1>3. CASE Heard(PutRequest(w), call[w].size) /\ Become(w, [call[w] EXCEPT !.pc = "ok"])
  <2>1. PICK c : c = [d EXCEPT !.pc = "ok"] OBVIOUS
  <2>2. c \in Call /\ c.pc = "ok" /\ c.size = d.size /\ c.sent = d.sent
        BY <2>1, CallAt DEF Pcs
  <2>3. call[w].size \in 0 .. x.n /\ x.kind = "put"
        BY <1>1, <1>2, CallIs DEF PutRequest
  <2>4. Sent(w)
        BY <1>2, <1>3, <2>3, RequestsSent
  <2>5. w \in applied' /\ session'[w].state # "open"
    <3>1. w \in applied'
          BY <1>2, <1>3, <2>3 DEF Heard, Handled
    <3>2. session[w].state = "none"
          BY <1>1 DEF UploadInv, SessionSound
    <3> QED BY <2>4, <3>1, <3>2 DEF Sent, NoneOpened
  <2>6. Moves(w, c)
        BY <1>1, <1>3, <2>1, <2>2, <2>4, <2>5, SentMoves
  <2> QED BY <2>2, <2>6
<1>4. CASE Unheard(PutRequest(w)) /\ Become(w, Again(call[w], "put", "failed"))
  <2>1. PICK c : c = Again(d, "put", "failed") OBVIOUS
  <2>2. c \in Call /\ c.pc \in {"put", "failed"} /\ c.size = d.size /\ c.sent = d.sent
        BY <2>1, AgainIs DEF Pcs
  <2>3. Sent(w)
        BY <1>2, <1>4, RequestsSent
  <2>4. Moves(w, c)
        BY <1>1, <1>4, <2>1, <2>2, <2>3, SentMoves
  <2> QED BY <2>2, <2>4
<1> QED BY <1>3, <1>4 DEF Put

\* What the client makes of an answer says that the object is complete only
\* when the session is.
LEMMA AnswerComplete ==
    ASSUME UploadInv, NEW w \in Writer, Sent(w), NEW x,
           Answer(session[w], session'[w], x).status = "complete"
    PROVE  w \in applied' /\ session'[w].state # "open"
<1>1. session'[w].state = "done"
      BY DEF Answer
<1> QED BY <1>1 DEF Sent, Effect

\* uploadWindow sends its window.
LEMMA SendWindowMoves ==
    ASSUME UploadInv, NEW w \in Writer, SendWindow(w)
    PROVE  \E c \in Call : Moves(w, c)
<1>1. PICK d \in Call : d = call[w] /\ d.pc = "window" /\ d.sent <= d.size
      BY CallIs DEF SendWindow
<1>2. PICK x \in Request : x = WindowRequest(w) /\ Asks(x) /\ x.w = w
      BY <1>1, RequestsAsk
<1>3. ASSUME NEW k \in 0 .. x.n, Heard(x, k), NEW a, a = Answer(session[w], session'[w], x),
             Become(w, IF a.status = "complete" THEN Landed(w, TRUE)
                       ELSE IF a.status = "incomplete" THEN Landed(w, FALSE)
                       ELSE [call[w] EXCEPT !.pc = "abort"])
      PROVE  \E c \in Call : Moves(w, c)
  <2>1. Sent(w) BY <1>2, <1>3, RequestsSent
  <2>2. PICK c : /\ Become(w, c)
                 /\ \/ a.status = "complete" /\ c = Landed(w, TRUE)
                    \/ c = Landed(w, FALSE)
                    \/ c = [d EXCEPT !.pc = "abort"]
        BY <1>1, <1>3
  <2>3. /\ c \in Call /\ c.pc \in {"window", "ok", "abort"} /\ c.size = d.size /\ c.sent <= c.size
        /\ c.pc = "ok" => a.status = "complete"
    <3>1. CASE a.status = "complete" /\ c = Landed(w, TRUE)
          BY <1>1, <3>1, LandedIs
    <3>2. CASE c = Landed(w, FALSE)
          BY <1>1, <3>2, LandedIs
    <3>3. ASSUME NEW pc \in {"window", "abort"}, c = [d EXCEPT !.pc = pc]
          PROVE  c \in Call /\ c.pc = pc /\ c.size = d.size /\ c.sent = d.sent
      <4>1. pc \in Pcs BY DEF Pcs
      <4> QED BY <3>3, <4>1, CallAt
    <3> QED BY <1>1, <2>2, <3>1, <3>2, <3>3
  <2>4. c.pc = "ok" => w \in applied' /\ session'[w].state # "open"
        BY <1>3, <2>1, <2>3, AnswerComplete
  <2>5. Moves(w, c)
        BY <1>1, <2>1, <2>2, <2>3, <2>4, SentMoves
  <2> QED BY <2>3, <2>5
<1>4. CASE Unheard(x) /\ Become(w, Again(call[w], "query", "abort"))
  <2>1. PICK c : c = Again(d, "query", "abort") OBVIOUS
  <2>2. c \in Call /\ c.pc \in {"query", "abort"} /\ c.size = d.size /\ c.sent = d.sent
        BY <2>1, AgainIs DEF Pcs
  <2>3. Sent(w) BY <1>2, <1>4, RequestsSent
  <2>4. Moves(w, c)
        BY <1>1, <1>4, <2>1, <2>2, <2>3, SentMoves
  <2> QED BY <2>2, <2>4
<1> QED BY <1>2, <1>3, <1>4 DEF SendWindow

\* resumableOffset, and what uploadWindow makes of its answer.
LEMMA QueryOffsetMoves ==
    ASSUME UploadInv, NEW w \in Writer, QueryOffset(w)
    PROVE  \E c \in Call : Moves(w, c)
<1>1. PICK d \in Call : d = call[w] /\ d.pc = "query" /\ d.sent <= d.size
      BY CallIs DEF QueryOffset
<1>2. PICK x \in Request : x = QueryRequest(w) /\ Asks(x) /\ x.w = w /\ x.n = 0
      BY <1>1, RequestsAsk DEF QueryRequest
<1>3. ASSUME Heard(x, 0), NEW a, a = Answer(session[w], session'[w], x),
             Become(w, CASE a.status = "complete"  -> Landed(w, TRUE)
                         [] a.status = "not found" -> [call[w] EXCEPT !.pc = "abort"]
                         [] OTHER -> Resumes(w, a.committed))
      PROVE  \E c \in Call : Moves(w, c)
  <2>1. Sent(w)
    <3>1. 0 \in 0 .. x.n BY <1>2
    <3> QED BY <1>2, <1>3, <3>1, RequestsSent
  <2>2. PICK c : /\ Become(w, c)
                 /\ \/ a.status = "complete" /\ c = Landed(w, TRUE)
                    \/ c = Landed(w, FALSE)
                    \/ \E pc \in {"window", "abort"} : c = [d EXCEPT !.pc = pc]
    <3>1. Resumes(w, a.committed) \in {Landed(w, FALSE), [d EXCEPT !.pc = "window"], [d EXCEPT !.pc = "abort"]}
          BY <1>1 DEF Resumes
    <3> QED BY <1>1, <1>3, <3>1
  <2>3. /\ c \in Call /\ c.pc \in {"window", "ok", "abort"} /\ c.size = d.size /\ c.sent <= c.size
        /\ c.pc = "ok" => a.status = "complete"
    <3>1. CASE a.status = "complete" /\ c = Landed(w, TRUE)
          BY <1>1, <3>1, LandedIs
    <3>2. CASE c = Landed(w, FALSE)
          BY <1>1, <3>2, LandedIs
    <3>3. ASSUME NEW pc \in {"window", "abort"}, c = [d EXCEPT !.pc = pc]
          PROVE  c \in Call /\ c.pc = pc /\ c.size = d.size /\ c.sent = d.sent
      <4>1. pc \in Pcs BY DEF Pcs
      <4> QED BY <3>3, <4>1, CallAt
    <3> QED BY <1>1, <2>2, <3>1, <3>2, <3>3
  <2>4. c.pc = "ok" => w \in applied' /\ session'[w].state # "open"
        BY <1>3, <2>1, <2>3, AnswerComplete
  <2>5. Moves(w, c)
        BY <1>1, <2>1, <2>2, <2>3, <2>4, SentMoves
  <2> QED BY <2>3, <2>5
<1>4. CASE Unheard(x) /\ Become(w, Again(call[w], "query", "abort"))
  <2>1. PICK c : c = Again(d, "query", "abort") OBVIOUS
  <2>2. c \in Call /\ c.pc \in {"query", "abort"} /\ c.size = d.size /\ c.sent = d.sent
        BY <2>1, AgainIs DEF Pcs
  <2>3. Sent(w) BY <1>2, <1>4, RequestsSent
  <2>4. Moves(w, c)
        BY <1>1, <1>4, <2>1, <2>2, <2>3, SentMoves
  <2> QED BY <2>2, <2>4
<1> QED BY <1>2, <1>3, <1>4 DEF QueryOffset

\* A session that was just opened has the empty part of the blob.
LEMMA OpenedHas ==
    ASSUME UploadInv, NEW w \in Writer, session' = Opened(w), UNCHANGED <<object, applied>>
    PROVE  Effect(w)
<1>1. Part(w, 0) = <<>> /\ Len(<<>>) = 0 /\ 0 \in 0 .. Length[w]
  <2>1. 0 \in 0 .. Length[w] BY UploadAssumption
  <2>2. SubSeq(Blob(w), 1, 0) = <<>> BY SubSeqEmpty
  <2> QED BY <2>1, <2>2 DEF Part
<1>2. PICK t : t = [state |-> "open", data |-> <<>>] OBVIOUS
<1>3. t.state = "open" /\ t.data = <<>> /\ Len(t.data) = 0 /\ t = [state |-> t.state, data |-> Part(w, Len(t.data))]
      BY <1>1, <1>2
<1>4. session'[w] = t /\ DOMAIN session' = Writer /\ \A v \in Writer \ {w} : session'[v] = session[v]
      BY <1>2 DEF UploadInv, Opened
<1> QED BY <1>1, <1>3, <1>4 DEF Effect

\* startResumable opens the session, or hears nothing of it.
LEMMA StartMoves ==
    ASSUME UploadInv, NEW w \in Writer, StartResumable(w)
    PROVE  \E c \in Call : Moves(w, c)
<1>1. PICK d \in Call : d = call[w] /\ d.pc = "start" /\ d.sent <= d.size
      BY CallIs DEF StartResumable
<1>2. PICK pc \in {"window", "unnamed"} :
        Become(w, [d EXCEPT !.pc = pc]) /\ session' \in {session, Opened(w)} /\ faults' \in {faults, faults + 1}
        /\ (faults' = faults \/ faults < MaxFaults)
      BY <1>1 DEF StartResumable
<1>3. PICK c : c = [d EXCEPT !.pc = pc] OBVIOUS
<1>4. c \in Call /\ c.pc = pc /\ c.size = d.size /\ c.sent = d.sent
  <2>1. pc \in Pcs BY DEF Pcs
  <2> QED BY <1>3, <2>1, CallAt
<1>5. call' = [call EXCEPT ![w] = c] /\ UNCHANGED <<object, late, applied>>
      BY <1>2, <1>3 DEF StartResumable, Become
<1>6. Effect(w)
      BY <1>2, <1>5, OpenedHas, NotHandledHas DEF NotHandled
<1>7. faults' \in 0 .. MaxFaults
      BY <1>2, UploadAssumption DEF UploadInv, TypeOK
<1>8. Moves(w, c)
      BY <1>1, <1>4, <1>5, <1>6, <1>7 DEF Moves, Returned, UploadInv, TypeOK
<1> QED BY <1>4, <1>8

\* A call that is interrupted, with a request perhaps on its way.
LEMMA InterruptMoves ==
    ASSUME UploadInv, NEW w \in Writer, Interrupt(w)
    PROVE  \E c \in Call : Moves(w, c)
<1>1. PICK d \in Call : d = call[w] /\ d.pc \in {"put", "start", "window", "query"} /\ d.sent <= d.size
      BY CallIs DEF Interrupt
<1>2. PICK pc \in {"failed", "abort"} : pc = IF d.pc \in {"put", "start"} THEN "failed" ELSE "abort"
      OBVIOUS
<1>3. PICK c : c = [d EXCEPT !.pc = pc] OBVIOUS
<1>4. c \in Call /\ c.pc = pc /\ c.size = d.size /\ c.sent = d.sent
  <2>1. pc \in Pcs BY DEF Pcs
  <2> QED BY <1>3, <2>1, CallAt
<1>5. Become(w, c)
      BY <1>1, <1>2, <1>3 DEF Interrupt
<1>6. d.pc # "start" => Current(w) \in Request /\ Asks(Current(w))
      BY <1>1, RequestsAsk DEF Current
<1>7. Sent(w)
  <2>1. Effect(w) /\ NoneOpened(w) BY NotHandledHas DEF Interrupt
  <2>2. late' = late \/ (d.pc # "start" /\ late' = late \union {Current(w)})
        BY <1>1 DEF Interrupt
  <2>3. late \subseteq Request /\ faults \in 0 .. MaxFaults /\ MaxFaults \in Nat
        BY UploadAssumption DEF UploadInv, TypeOK
  <2>4. faults' \in 0 .. MaxFaults BY <2>3 DEF Interrupt
  <2> QED BY <1>6, <2>1, <2>2, <2>3, <2>4 DEF Sent
<1>8. Moves(w, c)
      BY <1>1, <1>2, <1>4, <1>5, <1>7, SentMoves
<1> QED BY <1>4, <1>8

\* A session that ends before it is complete.
LEMMA GoneHas ==
    ASSUME UploadInv, NEW w \in Writer, UNCHANGED <<object, applied>>,
           session' = [session EXCEPT ![w] = IF @.state = "open" THEN [@ EXCEPT !.state = "gone"] ELSE @]
    PROVE  Effect(w) /\ session'[w].state # "open"
           /\ (session[w].state = "none" => session'[w].state = "none")
<1>1. PICK s : s = session[w] OBVIOUS
<1>2. /\ s = [state |-> s.state, data |-> Part(w, Len(s.data))]
      /\ s.state \in {"none", "open", "done", "gone"} /\ Len(s.data) \in 0 .. Length[w]
      /\ s.state = "done" => Len(s.data) = call[w].size /\ w \in applied
      /\ DOMAIN session = Writer
      BY <1>1 DEF UploadInv, SessionSound
<1>3. PICK t : t = IF s.state = "open" THEN [s EXCEPT !.state = "gone"] ELSE s OBVIOUS
<1>4. session' = [session EXCEPT ![w] = t]
      BY <1>1, <1>3
<1>5. t.state = (IF s.state = "open" THEN "gone" ELSE s.state) /\ t.data = s.data
      /\ t = [state |-> t.state, data |-> t.data]
      BY <1>2, <1>3
<1>6. t.data = Part(w, Len(t.data)) /\ Len(t.data) \in 0 .. Length[w]
  <2>1. s.data = Part(w, Len(s.data)) BY <1>2
  <2> QED BY <1>2, <1>5, <2>1
<1>7. session'[w] = t /\ DOMAIN session' = Writer /\ \A v \in Writer \ {w} : session'[v] = session[v]
      BY <1>2, <1>4
<1>8. t.state \in {"none", "gone", "done"}
      BY <1>2, <1>5
<1>9. t.state = "done" => Len(t.data) = call[w].size /\ w \in applied'
      BY <1>2, <1>5
<1>10. Effect(w)
       BY <1>5, <1>6, <1>7, <1>8, <1>9 DEF Effect
<1> QED BY <1>1, <1>5, <1>7, <1>8, <1>10

\* abortResumable.
LEMMA AbortMoves ==
    ASSUME UploadInv, NEW w \in Writer, AbortResumable(w)
    PROVE  \E c \in Call : Moves(w, c)
<1>1. PICK d \in Call : d = call[w] /\ d.pc = "abort" /\ d.sent <= d.size
      BY CallIs DEF AbortResumable
<1>2. late \subseteq Request /\ faults \in 0 .. MaxFaults /\ MaxFaults \in Nat /\ ~Returned(w)
      BY <1>1, UploadAssumption DEF UploadInv, TypeOK, Returned
<1>3. UNCHANGED <<object, late, applied>> BY DEF AbortResumable
<1>4. ASSUME session' = [session EXCEPT ![w] = IF @.state = "open" THEN [@ EXCEPT !.state = "gone"] ELSE @],
             Become(w, [call[w] EXCEPT !.pc = "failed"]), UNCHANGED faults
      PROVE  \E c \in Call : Moves(w, c)
  <2>1. PICK c : c = [d EXCEPT !.pc = "failed"] OBVIOUS
  <2>2. c \in Call /\ c.pc = "failed" /\ c.size = d.size /\ c.sent = d.sent
        BY <2>1, CallAt DEF Pcs
  <2>3. Effect(w) /\ session'[w].state # "open" BY <1>3, <1>4, GoneHas
  <2>4. Moves(w, c)
        BY <1>1, <1>2, <1>3, <1>4, <2>1, <2>2, <2>3 DEF Moves, Become
  <2> QED BY <2>2, <2>4
<1>5. ASSUME faults < MaxFaults, faults' = faults + 1, Become(w, [call[w] EXCEPT !.pc = "abandoned"]),
             UNCHANGED session
      PROVE  \E c \in Call : Moves(w, c)
  <2>1. PICK c : c = [d EXCEPT !.pc = "abandoned"] OBVIOUS
  <2>2. c \in Call /\ c.pc = "abandoned" /\ c.size = d.size /\ c.sent = d.sent
        BY <2>1, CallAt DEF Pcs
  <2>3. Effect(w) BY <1>3, <1>5, NotHandledHas DEF NotHandled
  <2>4. faults' \in 0 .. MaxFaults BY <1>2, <1>5
  <2>5. Moves(w, c)
        BY <1>1, <1>2, <1>3, <1>5, <2>1, <2>2, <2>3, <2>4 DEF Moves, Become
  <2> QED BY <2>2, <2>5
<1> QED BY <1>4, <1>5 DEF AbortResumable

\* A call that is not touched stays as sound as it was.
LEMMA CallStays ==
    ASSUME UploadInv, NEW w \in Writer, UNCHANGED call, call[w].pc # "idle",
           Effect(w), session'[w].state = "open" => session[w].state = "open",
           session[w].state = "none" => session'[w].state = "none",
           late' \subseteq late, faults' \in 0 .. MaxFaults
    PROVE  call[w] \in Call /\ Moves(w, call[w])
<1>1. call \in [Writer -> Call] /\ call' = [call EXCEPT ![w] = call[w]] /\ late \subseteq Request
      BY DEF UploadInv, TypeOK
<1>2. /\ call[w].sent <= call[w].size /\ (call[w].pc = "ok" => w \in applied)
      /\ call[w].pc \in {"put", "start"} => session[w].state = "none"
      /\ call[w].pc \in {"ok", "failed"} => session[w].state # "open"
      BY DEF UploadInv, CallSound, SessionSound
<1>3. applied \subseteq applied' BY DEF Effect
<1> QED BY <1>1, <1>2, <1>3 DEF Moves

\* The service forgets a session.
LEMMA ExpireMoves ==
    ASSUME UploadInv, NEW w \in Writer, Expire(w)
    PROVE  \E c \in Call : Moves(w, c)
<1>1. session[w].state = "open" /\ UNCHANGED <<call, object, late, applied>> /\ faults' \in 0 .. MaxFaults
      BY UploadAssumption DEF Expire, UploadInv, TypeOK
<1>2. session' = [session EXCEPT ![w] = IF @.state = "open" THEN [@ EXCEPT !.state = "gone"] ELSE @]
      BY <1>1 DEF Expire
<1>3. Effect(w) /\ session'[w].state # "open"
      BY <1>1, <1>2, GoneHas
<1>4. call[w].pc # "idle"
      BY <1>1 DEF UploadInv, SessionSound
<1> QED BY <1>1, <1>3, <1>4, CallStays

\* A request arrives after its caller gave up on it.
LEMMA DeliverLateMoves ==
    ASSUME UploadInv, NEW x \in late, DeliverLate(x)
    PROVE  \E w \in Writer, c \in Call : Moves(w, c)
<1>1. x \in Request /\ Asks(x) /\ x.w \in Writer /\ x.n \in 0 .. x.n
      BY DEF UploadInv, TypeOK, Request
<1>2. Effect(x.w) /\ NoneOpened(x.w)
      BY <1>1, HandledHas DEF DeliverLate
<1>3. UNCHANGED call /\ late' \subseteq late /\ faults' \in 0 .. MaxFaults
      BY DEF DeliverLate, UploadInv, TypeOK
<1>4. call[x.w].pc # "idle" BY <1>1 DEF Asks
<1>5. call[x.w] \in Call /\ Moves(x.w, call[x.w])
      BY <1>1, <1>2, <1>3, <1>4, CallStays DEF NoneOpened
<1> QED BY <1>1, <1>5

-----------------------------------------------------------------------------
(* The invariant *)

\* PutStream begins a call.
LEMMA PutStreamInv ==
    ASSUME UploadInv, NEW w \in Writer, PutStream(w)
    PROVE  UploadInv'
<1>1. PICK size \in EndsAt(w), pc \in {"put", "start"} :
         call' = [call EXCEPT ![w] = [call[w] EXCEPT !.size = size, !.pc = pc]]
      BY DEF PutStream, Become
<1>2. /\ call[w].pc = "idle" /\ UNCHANGED <<session, object, late, applied, faults>>
      /\ call \in [Writer -> Call] /\ applied \subseteq Writer
      BY DEF PutStream, UploadInv, TypeOK
<1>3. size \in Nat
      BY UploadAssumption DEF EndsAt
<1>4. PICK d \in Call : d = call[w] /\ d.sent = 0
      BY <1>2 DEF UploadInv, CallSound
<1>5. PICK c : c = [d EXCEPT !.size = size, !.pc = pc] OBVIOUS
<1>6. c \in Call /\ c.pc = pc /\ c.size = size /\ c.sent = 0
      BY <1>3, <1>4, <1>5 DEF Call
<1>7. call' \in [Writer -> Call] /\ call'[w] = c /\ \A v \in Writer : v # w => call'[v] = call[v]
      BY <1>1, <1>2, <1>4, <1>5, <1>6
<1>8. TypeOK' BY <1>2, <1>7 DEF UploadInv, TypeOK
<1>9. w \notin applied BY <1>2 DEF UploadInv
<1>10. \A v \in Writer : CallSound(v)'
  <2>1. TAKE v \in Writer
  <2>2. CASE v = w
        BY <1>3, <1>6, <1>7, <2>2 DEF CallSound, EndsAt
  <2>3. CASE v # w
        BY <1>2, <1>7, <2>3 DEF UploadInv, CallSound, EndsAt
  <2> QED BY <2>2, <2>3
<1>11. \A v \in Writer : SessionSound(v)'
  <2>1. TAKE v \in Writer
  <2>2. CASE v = w
        BY <1>2, <1>6, <1>7, <2>2 DEF UploadInv, SessionSound
  <2>3. CASE v # w
        BY <1>2, <1>7, <2>3 DEF UploadInv, SessionSound
  <2> QED BY <2>2, <2>3
<1>12. \A x \in late' : Asks(x)'
  <2>1. TAKE x \in late'
  <2>2. x.w \in Writer /\ Asks(x) BY <1>2 DEF UploadInv, TypeOK, Request
  <2>3. x.w # w BY <1>2, <2>2 DEF Asks
  <2> QED BY <1>7, <2>2, <2>3 DEF Asks
<1>13. \A v \in applied' : call'[v].pc # "idle"
       BY <1>2, <1>7, <1>9 DEF UploadInv
<1>14. ObjectSound'
       BY <1>2, <1>7, <1>9 DEF UploadInv, ObjectSound
<1> QED BY <1>2, <1>8, <1>10, <1>11, <1>12, <1>13, <1>14 DEF UploadInv

\* Every other step is of one call, or of the service for one.
LEMMA StepMoves ==
    ASSUME UploadInv, Next
    PROVE  \/ \E w \in Writer : PutStream(w)
           \/ \E w \in Writer, c \in Call : Moves(w, c)
<1>1. ASSUME NEW w \in Writer, ClientStep(w) \/ Interrupt(w) \/ Expire(w), ~PutStream(w)
      PROVE  \E c \in Call : Moves(w, c)
  <2>1. CASE Put(w) BY <2>1, PutMoves
  <2>2. CASE StartResumable(w) BY <2>2, StartMoves
  <2>3. CASE SendWindow(w) BY <2>3, SendWindowMoves
  <2>4. CASE QueryOffset(w) BY <2>4, QueryOffsetMoves
  <2>5. CASE AbortResumable(w) BY <2>5, AbortMoves
  <2>6. CASE Interrupt(w) BY <2>6, InterruptMoves
  <2>7. CASE Expire(w) BY <2>7, ExpireMoves
  <2> QED BY <1>1, <2>1, <2>2, <2>3, <2>4, <2>5, <2>6, <2>7 DEF ClientStep
<1> QED BY <1>1, DeliverLateMoves DEF Next

\* The invariant holds at the start.
LEMMA UploadInvInit == Init => UploadInv
<1> SUFFICES ASSUME Init PROVE UploadInv OBVIOUS
<1>1. PICK zero : zero = [pc |-> "idle", size |-> 0, sent |-> 0, attempt |-> 0] OBVIOUS
<1>2. zero \in Call /\ zero.pc = "idle" /\ zero.size = 0 /\ zero.sent = 0
  <2>1. 0 \in 0 .. MaxAttempts - 1 BY UploadAssumption
  <2> QED BY <1>1, <2>1 DEF Call
<1>3. \A w \in Writer : call[w] = zero BY <1>1 DEF Init
<1>4. call \in [Writer -> Call] BY <1>1, <1>2 DEF Init
<1>5. PICK none : none = [state |-> "none", data |-> <<>>] OBVIOUS
<1>6. none.state = "none" /\ none.data = <<>> /\ none = [state |-> none.state, data |-> none.data]
      BY <1>5
<1>7. \A w \in Writer : session[w] = none BY <1>5 DEF Init
<1>8. \A w \in Writer : Part(w, 0) = <<>> /\ Len(<<>>) = 0 /\ 0 \in 0 .. Length[w]
  <2>1. TAKE w \in Writer
  <2>2. 0 \in 0 .. Length[w] BY UploadAssumption
  <2>3. SubSeq(Blob(w), 1, 0) = <<>> BY SubSeqEmpty
  <2> QED BY <2>2, <2>3 DEF Part
<1>9. TypeOK BY <1>4, <1>6, <1>7, UploadAssumption DEF Init, TypeOK
<1>10. \A w \in Writer : CallSound(w) BY <1>2, <1>3 DEF CallSound
<1>11. \A w \in Writer : SessionSound(w)
       BY <1>2, <1>3, <1>6, <1>7, <1>8 DEF SessionSound
<1> QED BY <1>9, <1>10, <1>11 DEF Init, UploadInv, ObjectSound

\* And is kept by every step.
LEMMA UploadInvStep == UploadInv /\ [Next]_vars => UploadInv'
<1> SUFFICES ASSUME UploadInv, [Next]_vars PROVE UploadInv' OBVIOUS
<1>1. CASE Next BY <1>1, StepMoves, PutStreamInv, MovesInv
<1>2. CASE UNCHANGED vars
  <2>1. UNCHANGED <<call, session, object, late, applied, faults>> BY <1>2 DEF vars
  <2>2. TypeOK' /\ ObjectSound' BY <2>1 DEF UploadInv, TypeOK, ObjectSound
  <2>3. \A w \in Writer : CallSound(w)' /\ SessionSound(w)'
        BY <2>1 DEF UploadInv, CallSound, SessionSound, EndsAt
  <2>4. \A x \in late' : Asks(x)' BY <2>1 DEF UploadInv, Asks
  <2> QED BY <2>1, <2>2, <2>3, <2>4 DEF UploadInv
<1> QED BY <1>1, <1>2

\* A session has a first part of its blob and is complete only with all the
\* source had; requests on their way, however late, ask for no more; and the
\* object is what an upload that took effect had.
THEOREM UploadInvariant == Spec => []UploadInv
BY UploadInvInit, UploadInvStep, PTL DEF Spec

\* An upload that returned has left no session open on the service, unless the
\* request that abandons it was lost or the answer that names it: late windows of
\* it do not open one again.
THEOREM SessionsClosed == Spec => []NoSessionLeft
<1>1. UploadInv => NoSessionLeft
      BY DEF UploadInv, SessionSound, NoSessionLeft, Returned
<1> QED BY <1>1, UploadInvariant, PTL

-----------------------------------------------------------------------------
(* The contract *)

\* What was stored whole is stored as its upload's.
LEMMA StoredWhole ==
    ASSUME NEW w \in Writer, object = Blob(w)
    PROVE  StoredAs = w
<1>1. \A v \in Writer : Blob(v) = Blob(w) => v = w
  <2>1. TAKE v \in Writer
  <2>2. \A u \in Writer : 1 \in 1 .. Length[u] BY UploadAssumption
  <2>3. Blob(v)[1] = <<v, 1>> /\ Blob(w)[1] = <<w, 1>> BY <2>2 DEF Blob
  <2> QED BY <2>3
<1>2. object # Nothing BY NothingAssumption
<1>3. (CHOOSE v \in Writer : object = Blob(v)) = w BY <1>1
<1> QED BY <1>2, <1>3 DEF StoredAs

\* The same one step later.
LEMMA StoredWholeNext ==
    ASSUME NEW w \in Writer, object' = Blob(w)
    PROVE  StoredAs' = w
<1>1. \A v \in Writer : Blob(v) = Blob(w) => v = w
  <2>1. TAKE v \in Writer
  <2>2. \A u \in Writer : 1 \in 1 .. Length[u] BY UploadAssumption
  <2>3. Blob(v)[1] = <<v, 1>> /\ Blob(w)[1] = <<w, 1>> BY <2>2 DEF Blob
  <2> QED BY <2>3
<1>2. object' # Nothing BY NothingAssumption
<1>3. (CHOOSE v \in Writer : object' = Blob(v)) = w BY <1>1
<1> QED BY <1>2, <1>3 DEF StoredAs

\* What each upload returned.
Outcome == [w \in Writer |-> IF call[w].pc = "ok" THEN "ok" ELSE IF Returned(w) THEN "failed" ELSE "none"]

Begun == {w \in Writer : call[w].pc # "idle"}

\* A step of one call, and of the service for it, is a step of the contract.
LEMMA MovesRefine ==
    ASSUME UploadInv, Downloads = {}, NEW w \in Writer, NEW c \in Call, Moves(w, c)
    PROVE  \/ Contract!Apply(w) \/ Contract!Succeed(w) \/ Contract!ApplyAndReturn(w) \/ Contract!Fail(w)
           \/ UNCHANGED Contract!bucketVars
<1>1. call \in [Writer -> Call] /\ call' = [call EXCEPT ![w] = c] /\ call'[w] = c
      /\ call[w].pc # "idle" /\ c.pc # "idle"
      /\ \A v \in Writer : v # w => call'[v] = call[v]
      BY DEF UploadInv, TypeOK, Moves
<1>2. call[w].size = Length[w]
      BY <1>1 DEF UploadInv, CallSound, EndsAt
<1>3. \/ object' = object /\ applied' = applied
      \/ object' = Blob(w) /\ applied' = applied \union {w}
      BY <1>2, PartWhole DEF Moves, Effect
<1>4. \/ StoredAs' = StoredAs /\ applied' = applied
      \/ StoredAs' = w /\ applied' = applied \union {w}
  <2>1. CASE object' = object /\ applied' = applied
        BY <2>1 DEF StoredAs
  <2>2. CASE object' = Blob(w) /\ applied' = applied \union {w}
        BY <2>2, StoredWholeNext
  <2> QED BY <1>3, <2>1, <2>2
<1>5. Begun' = Begun /\ w \in Begun
      BY <1>1 DEF Begun
<1>6. \/ Outcome' = Outcome
      \/ Outcome[w] = "none" /\ Outcome' = [Outcome EXCEPT ![w] = "ok"] /\ w \in applied'
      \/ Outcome[w] = "none" /\ Outcome' = [Outcome EXCEPT ![w] = "failed"]
  <2>1. \A v \in Writer : v # w => Outcome'[v] = Outcome[v]
        BY <1>1 DEF Outcome, Returned
  <2>2. \/ Outcome'[w] = Outcome[w]
        \/ Outcome[w] = "none" /\ Outcome'[w] = "ok" /\ w \in applied'
        \/ Outcome[w] = "none" /\ Outcome'[w] = "failed"
        BY <1>1 DEF Outcome, Returned, Moves
  <2>3. \A r : Outcome'[w] = r => Outcome' = [Outcome EXCEPT ![w] = r]
    <3>1. TAKE r
    <3>2. Outcome' = [v \in Writer |-> Outcome'[v]] /\ Outcome = [v \in Writer |-> Outcome[v]]
          BY DEF Outcome
    <3> HIDE DEF Outcome
    <3> QED BY <2>1, <3>2
  <2>4. Outcome'[w] = Outcome[w] => Outcome' = Outcome
    <3>1. Outcome' = [v \in Writer |-> Outcome'[v]] /\ Outcome = [v \in Writer |-> Outcome[v]]
          BY DEF Outcome
    <3> HIDE DEF Outcome
    <3> QED BY <2>1, <3>1
  <2> HIDE DEF Outcome
  <2> QED BY <2>2, <2>3, <2>4
<1> QED BY <1>4, <1>5, <1>6 DEF Outcome, Begun, Contract!Apply, Contract!Succeed, Contract!ApplyAndReturn,
           Contract!Fail, Contract!bucketVars

\* Beginning a call is the contract's beginning.
LEMMA PutStreamRefines ==
    ASSUME UploadInv, NEW w \in Writer, PutStream(w)
    PROVE  Contract!Begin(w)
<1>1. PICK c : call' = [call EXCEPT ![w] = c] /\ c.pc \in {"put", "start"}
  <2>1. PICK size \in EndsAt(w), pc \in {"put", "start"} :
           call' = [call EXCEPT ![w] = [call[w] EXCEPT !.size = size, !.pc = pc]]
        BY DEF PutStream, Become
  <2>2. [call[w] EXCEPT !.size = size, !.pc = pc].pc = pc
        BY DEF UploadInv, TypeOK, Call
  <2> QED BY <2>1, <2>2
<1>2. /\ call \in [Writer -> Call] /\ call[w].pc = "idle" /\ call'[w] = c
      /\ \A v \in Writer : v # w => call'[v] = call[v]
      /\ UNCHANGED <<object, applied>>
      BY <1>1 DEF UploadInv, TypeOK, PutStream
<1>3. w \notin Begun /\ Begun' = Begun \union {w} BY <1>1, <1>2 DEF Begun
<1>4. Outcome' = Outcome BY <1>1, <1>2 DEF Outcome, Returned
<1>5. StoredAs' = StoredAs BY <1>2 DEF StoredAs
<1> QED BY <1>2, <1>3, <1>4, <1>5 DEF Begun, Outcome, Contract!Begin

\* The client keeps the Provider contract where no upload's source is itself a
\* download: through retries, partial writes, lost answers and late requests
\* the object goes from one upload's whole content to another's, and an upload
\* that reports success took effect.
THEOREM ContractKept ==
    ASSUME Downloads = {}
    PROVE  Spec => KeepsContract
<1>1. Init => Contract!BucketInit
  <2> SUFFICES ASSUME Init PROVE Contract!BucketInit OBVIOUS
  <2>1. \A w \in Writer : call[w].pc = "idle" BY DEF Init
  <2>2. StoredAs = Nothing /\ applied = {} BY DEF Init, StoredAs
  <2>3. Begun = {} BY <2>1 DEF Begun
  <2>4. Outcome = [w \in Writer |-> "none"] BY <2>1 DEF Outcome, Returned
  <2> QED BY <2>2, <2>3, <2>4 DEF Begun, Outcome, Contract!BucketInit
<1>2. UploadInv /\ [Next]_vars => [Contract!BucketNext]_Contract!bucketVars
  <2> SUFFICES ASSUME UploadInv, [Next]_vars PROVE [Contract!BucketNext]_Contract!bucketVars OBVIOUS
  <2>1. ASSUME NEW w \in Writer, PutStream(w) PROVE Contract!BucketNext
        BY <2>1, PutStreamRefines DEF Contract!BucketNext
  <2>2. ASSUME NEW w \in Writer, NEW c \in Call, Moves(w, c)
        PROVE  Contract!BucketNext \/ UNCHANGED Contract!bucketVars
        BY <2>2, MovesRefine DEF Contract!BucketNext
  <2>3. CASE UNCHANGED vars
    <3>1. UNCHANGED <<call, object, applied>> BY <2>3 DEF vars
    <3> QED BY <3>1 DEF Contract!bucketVars, StoredAs, Returned
  <2> QED BY <2>1, <2>2, <2>3, StepMoves
<1> QED BY <1>1, <1>2, UploadInvariant, PTL DEF Spec, KeepsContract, Contract!BucketSpec

=============================================================================
