------------------------------ MODULE WavCheck ------------------------------
(***************************************************************************)
(* internal/wav, Validate: the walk over the chunks of an uploaded capture *)
(* and the verdict on it.  A file is what its chunk headers say, in order, *)
(* and how many bytes of it there really are; header fields that decide    *)
(* nothing are left out.  Sizes and rates are the code's own.              *)
(***************************************************************************)
EXTENDS Naturals, Sequences

CONSTANTS
  Sizes,         \* the sizes a chunk may declare
  Cuts,          \* how many bytes may be missing from the end
  ByteRates,     \* the byte rates a fmt chunk may declare
  SampleRates,   \* the sample rates, RequiredSampleRate among them
  MaxSize,       \* MaxSizeBytes
  MaxChunks      \* the chunks looked at here

RequiredSampleRate == 48000
MinSeconds == 30
MaxSeconds == 1200
FmtBody == 16

ASSUME WavAssumption ==
  Sizes \subseteq Nat /\ Cuts \subseteq Nat /\ ByteRates \subseteq Nat
    /\ SampleRates \subseteq Nat /\ MaxSize \in Nat

VARIABLES
  chunks,     \* the chunks that were written
  missing,    \* how many bytes are cut off the end
  walk        \* Validate: where it is and what it has found

wavVars == <<chunks, missing, walk>>

\* The rates of a fmt chunk are what the FmtBody bytes behind its header say, and these
\* are read whatever size it declares: behind a shorter one they are what follows it.
NoChunk == [id |-> "none", size |-> 0, rate |-> 0, byteRate |-> 0]
Chunk == [id : {"fmt"}, size : Sizes, rate : SampleRates, byteRate : ByteRates]
           \cup [id : {"data", "LIST"}, size : Sizes, rate : {0}, byteRate : {0}]

WavInit ==
  /\ chunks = <<>> /\ missing = 0
  /\ walk = [at |-> "upload", off |-> 12, fmt |-> NoChunk, data |-> NoChunk, body |-> 0]

\* A chunk's body is padded to an even boundary.
Padded(size) == size + (size % 2)

\* Where chunk n begins, after RIFF, a size and WAVE; and where the file ends.
ChunkAt[n \in Nat] == IF n <= 1 THEN 12 ELSE ChunkAt[n - 1] + 8 + Padded(chunks[n - 1].size)
FileSize == ChunkAt[Len(chunks) + 1] - missing

AddChunk ==
  /\ walk.at = "upload" /\ Len(chunks) < MaxChunks /\ missing = 0
  /\ \E c \in Chunk : chunks' = Append(chunks, c)
  /\ UNCHANGED <<missing, walk>>

\* The upload ended early: the last chunk lacks some of its body.
CutShort ==
  /\ walk.at = "upload" /\ chunks # <<>> /\ missing = 0
  /\ missing' \in Cuts \cap 1..Padded(chunks[Len(chunks)].size)
  /\ UNCHANGED <<chunks, walk>>

Moved(to) == walk' = [walk EXCEPT !.at = to]

\* The size of the file and its first twelve bytes.
Submit ==
  /\ walk.at = "upload" /\ chunks # <<>>
  /\ \E riff \in BOOLEAN :
       Moved(IF FileSize > MaxSize \/ FileSize < 44 \/ ~riff THEN "no wav" ELSE "scan")
  /\ UNCHANGED <<chunks, missing>>

\* The header that lies at an offset, if the offset is a chunk's beginning at all.
HeaderAt(off) ==
  IF \E n \in DOMAIN chunks : ChunkAt[n] = off
  THEN chunks[CHOOSE n \in DOMAIN chunks : ChunkAt[n] = off]
  ELSE NoChunk

\* Mutant: the next header is looked for right behind an odd body.
AdvanceUnpadded(body, size) == body + size

Advance(body, size) == body + Padded(size)

\* One turn of the loop.
Visit ==
  LET c == HeaderAt(walk.off)
      body == walk.off + 8
      next == Advance(body, c.size)
      found == CASE c.id = "fmt"  -> [walk EXCEPT !.fmt = c]
                 [] c.id = "data" -> [walk EXCEPT !.data = c, !.body = body]
                 [] OTHER         -> walk
      short == c.id = "fmt" /\ body + FmtBody > FileSize
      both == found.fmt # NoChunk /\ found.data # NoChunk
  IN
  /\ walk.at = "scan" /\ walk.off + 8 <= FileSize
  /\ walk' = IF short THEN [walk EXCEPT !.at = "refused"]
             ELSE IF both \/ next > FileSize THEN [found EXCEPT !.at = "judge"]
             ELSE [found EXCEPT !.off = next]
  /\ UNCHANGED <<chunks, missing>>

NoMoreHeaders ==
  /\ walk.at = "scan" /\ walk.off + 8 > FileSize
  /\ Moved("judge")
  /\ UNCHANGED <<chunks, missing>>

\* What was found is whole, at the right rate, and long enough but not too long.
Playable(f, d, present) ==
  /\ f # NoChunk /\ d # NoChunk
  /\ d.size <= present
  /\ f.rate = RequiredSampleRate /\ f.byteRate # 0
  /\ d.size >= MinSeconds * f.byteRate /\ d.size <= MaxSeconds * f.byteRate

Judge ==
  /\ walk.at = "judge"
  /\ Moved(IF Playable(walk.fmt, walk.data, FileSize - walk.body) THEN "accepted" ELSE "refused")
  /\ UNCHANGED <<chunks, missing>>

WavNext == AddChunk \/ CutShort \/ Submit \/ Visit \/ NoMoreHeaders \/ Judge
WavSpec == WavInit /\ [][WavNext]_wavVars

-----------------------------------------------------------------------------
(* Properties.                                                             *)

\* The chunks the verdict must rest on: up to the first place where both kinds have been
\* seen, the last of each.
Upto(n, id) == {i \in 1..n : chunks[i].id = id}
Deciding == {n \in DOMAIN chunks : Upto(n, "fmt") # {} /\ Upto(n, "data") # {}}
Latest(S) == CHOOSE i \in S : \A k \in S : k <= i

\* How many bytes the file has from chunk n's body on.
Behind(n) == FileSize - (ChunkAt[n] + 8)

\* A capture is accepted exactly if its format and its data can be found, odd chunks and
\* foreign ones in between notwithstanding, and every byte the duration is computed from
\* is there ("the duration must reflect real bytes, not a claim").  Of the format only
\* its FmtBody bytes need be there: the size it declares is used to go on, not believed.
VerdictIsRight ==
  walk.at \in {"accepted", "refused"} =>
    (walk.at = "accepted" <=>
       \E n \in Deciding :
         /\ \A m \in Deciding : n <= m
         /\ LET f == Latest(Upto(n, "fmt"))  d == Latest(Upto(n, "data")) IN
            /\ Behind(f) >= FmtBody /\ Behind(d) >= chunks[d].size
            /\ chunks[f].rate = RequiredSampleRate
            /\ chunks[f].byteRate > 0
            /\ chunks[d].size \in
                 MinSeconds * chunks[f].byteRate..MaxSeconds * chunks[f].byteRate)
=============================================================================
