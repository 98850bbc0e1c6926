------------------------------- MODULE AsrJob -------------------------------
(***************************************************************************)
(* One `mono_asr transcribe` (extensions/cli/asr/asr.py): the audio is cut *)
(* into chunks, each is transcribed over a websocket of its own, at most   *)
(* Concurrency at a time and up to three times, and the texts are joined.  *)
(* Of a text only how much of the chunk it covers is kept: "none", "part"  *)
(* or "whole"; lengths are whole numbers of some unit of time.             *)
(***************************************************************************)
EXTENDS Integers, SequencesExt, FiniteSetsExt

CONSTANTS Durations,   \* lengths of audio; ffprobe says 0 when it cannot tell
          ChunkSec,    \* --chunk-sec
          Concurrency, \* --concurrency
          Silent       \* chunks with nothing to hear

MaxRetry == 3

VARIABLES
  phase,   \* of the command: "cutting", "talking", "done" or "failed"
  audio,   \* what ffprobe says of its length, and what ffmpeg can decode of it
  lens,    \* the chunks: their lengths
  stage,   \* stage[c]: where _transcribe_chunk_with_retry of the chunk is
  tries,   \* tries[c]: its attempt
  got,     \* got[c]: full_text of the attempt, then the chunk's result
  free,    \* the semaphore's value
  cutOff,  \* history: chunks that ended "ok" without a last text
  result   \* the parts that _assemble_text joins

vars == <<phase, audio, lens, stage, tries, got, free, cutOff, result>>
job  == <<phase, audio, lens>>

Chunks == DOMAIN lens

Init ==
  /\ phase = "cutting" /\ audio = [says |-> 0, has |-> 0]
  /\ lens = <<>> /\ stage = <<>> /\ tries = <<>> /\ got = <<>>
  /\ free = Concurrency /\ cutOff = {} /\ result = <<>>

\* Mutant: a last chunk that is shorter is forgotten.
InChunks_WholeOnly(d) == d \div ChunkSec

\* How many chunks a length makes: n_chunks.
InChunks(d) == d \div ChunkSec + (IF d % ChunkSec > 0 THEN 1 ELSE 0)

\* _split_audio, when ffprobe says the audio is longer than a chunk: as many chunks as
\* that makes, but the first that comes out empty ends the loop.  Else (and when the
\* length is unknown) all of it is converted as one.
Cut(says, has) ==
  IF says <= ChunkSec THEN <<has>>
  ELSE LET n == IF InChunks(says) <= InChunks(has) THEN InChunks(says) ELSE InChunks(has)
       IN  [i \in 1..n |-> IF i * ChunkSec <= has THEN ChunkSec ELSE has - (i - 1) * ChunkSec]

\* The audio is probed and cut, and the chunks wait for a slot.
Split ==
  /\ phase = "cutting"
  /\ \E says, has \in Durations : audio' = [says |-> says, has |-> has] /\ lens' = Cut(says, has)
  /\ phase' = "talking"
  /\ stage' = [c \in DOMAIN lens' |-> "ready"]
  /\ tries' = [c \in DOMAIN lens' |-> 1]
  /\ got' = [c \in DOMAIN lens' |-> "none"]
  /\ UNCHANGED <<free, cutOff, result>>

\* ffmpeg is missing, takes too long or fails, for one chunk or for all: the command
\* ends with an error, and nothing is transcribed.
SplitFails ==
  /\ phase = "cutting" /\ phase' = "failed"
  /\ UNCHANGED <<audio, lens, stage, tries, got, free, cutOff, result>>

\* `async with sem`: a slot is taken, the connection made, the audio sent.
Acquire(c) ==
  /\ stage[c] = "ready" /\ free > 0
  /\ free' = free - 1
  /\ stage' = [stage EXCEPT ![c] = "talking"]
  /\ got' = [got EXCEPT ![c] = "none"]
  /\ UNCHANGED <<job, tries, cutOff, result>>

\* A response: its text, when it has one, replaces the text so far; an error
\* response has none and is passed over like an acknowledgement.
PartialResponse(c) ==
  /\ stage[c] = "talking" /\ c \notin Silent /\ got[c] = "none"
  /\ got' = [got EXCEPT ![c] = "part"]
  /\ UNCHANGED <<job, stage, tries, free, cutOff, result>>

\* The attempt returns its text, and the slot is given back.
Finish(c, text, early) ==
  /\ got' = [got EXCEPT ![c] = text]
  /\ cutOff' = IF early THEN cutOff \cup {c} ELSE cutOff
  /\ stage' = [stage EXCEPT ![c] = "ok"]
  /\ free' = free + 1
  /\ UNCHANGED <<job, tries, result>>

\* The last response, flagged so, with the whole text.
LastResponse(c) == stage[c] = "talking" /\ Finish(c, IF c \in Silent THEN "none" ELSE "whole", FALSE)

\* An error or an acknowledgement is flagged as the last: the loop ends as after a text.
\* So it does when nothing came for 60 seconds.
LastIsError(c) == stage[c] = "talking" /\ Finish(c, got[c], TRUE)
Timeout(c)     == stage[c] = "talking" /\ Finish(c, got[c], TRUE)

\* The connection is refused or breaks: the attempt is lost; the third is the last.
Breaks(c) ==
  /\ stage[c] = "talking"
  /\ stage' = [stage EXCEPT ![c] = IF tries[c] < MaxRetry THEN "sleeping" ELSE "error"]
  /\ got' = [got EXCEPT ![c] = "none"]
  /\ free' = free + 1
  /\ UNCHANGED <<job, tries, cutOff, result>>

\* A response that cannot be parsed raises what no handler of the retry loop
\* names: gather keeps the exception as the chunk's result.
Garbled(c) ==
  /\ stage[c] = "talking"
  /\ stage' = [stage EXCEPT ![c] = "error"]
  /\ got' = [got EXCEPT ![c] = "none"]
  /\ free' = free + 1
  /\ UNCHANGED <<job, tries, cutOff, result>>

\* The backoff of 2 or 4 seconds is over.
Retry(c) ==
  /\ stage[c] = "sleeping"
  /\ stage' = [stage EXCEPT ![c] = "ready"]
  /\ tries' = [tries EXCEPT ![c] = @ + 1]
  /\ UNCHANGED <<job, got, free, cutOff, result>>

\* What a chunk puts into the transcript: an empty text is left out.
TextOf(c, part) == IF part = "none" THEN <<>> ELSE <<[chunk |-> c, part |-> part]>>

\* Mutant: a failed chunk is left out like one without a text.
Assembled_NoMarker ==
  FlattenSeq([c \in Chunks |-> TextOf(c, IF stage[c] = "error" THEN "none" ELSE got[c])])

\* _assemble_text: in the order of the chunks, a marker for one that failed.
Assembled ==
  FlattenSeq([c \in Chunks |-> TextOf(c, IF stage[c] = "error" THEN "failed" ELSE got[c])])

\* gather() is over: the results are sorted and joined; an empty text is an error.
Assemble ==
  /\ phase = "talking" /\ \A c \in Chunks : stage[c] \in {"ok", "error"}
  /\ result' = Assembled
  /\ phase' = IF Assembled = <<>> THEN "failed" ELSE "done"
  /\ UNCHANGED <<audio, lens, stage, tries, got, free, cutOff>>

Job(c) == \/ Acquire(c) \/ PartialResponse(c) \/ LastResponse(c) \/ LastIsError(c) \/ Timeout(c)
          \/ Breaks(c) \/ Garbled(c) \/ Retry(c)
Next == Split \/ SplitFails \/ Assemble \/ \E c \in Chunks : Job(c)
Spec == Init /\ [][Next]_vars

-----------------------------------------------------------------------------
\* How far the chunks reach, one after the other.
Reach == IF lens = <<>> THEN 0 ELSE (Len(lens) - 1) * ChunkSec + lens[Len(lens)]

\* The chunks follow each other without a gap, each but the last as long as was asked
\* for, and reach to the end of this audio, or at least to where ffprobe says it ends: a
\* chunk that comes out empty loses nothing, a length that is told too short may.
CutIsWhole ==
  phase \in {"talking", "done"} =>
    /\ \A i \in Chunks : i < Len(lens) => lens[i] = ChunkSec
    /\ audio.says > ChunkSec => \A i \in Chunks : lens[i] \in 1..ChunkSec
    /\ Reach <= audio.has
    /\ audio.has <= audio.says => Reach = audio.has
    /\ audio.says <= audio.has => audio.says <= Reach

\* The transcript tells of the chunks in order, and of every chunk all of its text, or
\* that it failed: but of a silent one nothing, and of one whose stream ended early, by 60
\* seconds of silence or an error that is flagged as the last response, what was heard
\* until then, with no marker, though asr.py 12 promises one; see README.
TranscriptTellsAll ==
  phase = "done" =>
    /\ \A i, j \in DOMAIN result : i < j => result[i].chunk < result[j].chunk
    /\ \A c \in Chunks \ (Silent \cup cutOff) :
         \E i \in DOMAIN result : result[i].chunk = c /\ result[i].part \in {"whole", "failed"}
=============================================================================
