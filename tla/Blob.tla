-------------------------------- MODULE Blob --------------------------------
(***************************************************************************)
(* An encrypted object (datasphere/internal/crypto): a header that wraps   *)
(* the object's single-use data key under a key-encryption key and seals   *)
(* its name, then frames sealed under that data key.                       *)
(*                                                                         *)
(* A seal is a record of what it was made with, which opens only for the   *)
(* same.  The body is in units of which FrameSize fill a frame.  The       *)
(* buffered format is a body of one frame.                                 *)
(***************************************************************************)
EXTENDS Integers, SequencesExt

CONSTANTS FrameSize  \* units of a full frame

ASSUME BlobAssumption == FrameSize \in Nat \ {0}

NoKey == 0

Min2(a, b) == IF a < b THEN a ELSE b

\* SealStream: full frames, then one that is strictly shorter, which a body
\* that fills its last frame gets as an empty one.
FrameCount(content) == (Len(content) \div FrameSize) + 1

Frame(dek, key, content, i) ==
    [dek |-> dek, key |-> key, index |-> i - 1, final |-> i = FrameCount(content),
     data |-> SubSeq(content, ((i - 1) * FrameSize) + 1, Min2(i * FrameSize, Len(content)))]

SealBody(dek, key, content) == [i \in 1 .. FrameCount(content) |-> Frame(dek, key, content, i)]

\* Seal: the name is sealed under the space's name key, for the path the key
\* is stored under in that space.
Seal(kek, dek, space, key, content) ==
    [kek |-> kek, dek |-> dek, name |-> [space |-> space, key |-> key],
     body |-> SealBody(dek, key, content)]

\* What of a frame is read when the body ends inside it.
Torn(frame) == [frame EXCEPT !.data = <<>>, !.dek = NoKey]

\* The i-th frame opens: it was sealed under this data key for this position
\* of this object.  The reader takes it for the last when it is short.
Authentic(blob, key, i) ==
    LET f == blob.body[i]
        final == Len(f.data) < FrameSize IN
      /\ f.dek = blob.dek /\ f.key = key /\ f.index = i - 1
      /\ f.final = final /\ (final => i = Len(blob.body))

\* How many frames OpenStream writes out before it ends or fails.
OpenedFrames(blob, key) ==
    CHOOSE n \in 0 .. Len(blob.body) :
        /\ \A i \in 1 .. n : Authentic(blob, key, i)
        /\ n < Len(blob.body) => ~Authentic(blob, key, n + 1)

\* OpenStream succeeds: every frame opened and the last one ends the object.
Complete(blob, key) ==
    /\ OpenedFrames(blob, key) = Len(blob.body)
    /\ blob.body # <<>> /\ Last(blob.body).final

Plaintext(blob, n) == FlattenSeq([i \in 1 .. n |-> blob.body[i].data])

\* Joining the frames a body was cut into gives it back.
RoundTrip(content) ==
    Plaintext([body |-> SealBody(NoKey, NoKey, content)], FrameCount(content)) = content

\* unwrap: the header's key-encryption key must be one the keyring holds.
Unwraps(held, blob) == blob.kek \in held

\* RekeyPrefix rewraps the data key; the name and the body stay as they are.
Rewrapped(blob, kek) == [blob EXCEPT !.kek = kek]
=============================================================================
