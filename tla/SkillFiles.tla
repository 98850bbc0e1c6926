----------------------------- MODULE SkillFiles -----------------------------
(***************************************************************************)
(* The skills directory of the runtime: filled from extensions/skills at   *)
(* every start (core/skill_sync.py), and edited by the skill routes of the *)
(* debug server (core/debug_server.py, core/skill_upload.py and the writes *)
(* of core/skill_service.py).  Each request is one step of the event loop; *)
(* a write may fail half-way and the process may die in the middle of a    *)
(* copy.                                                                   *)
(*                                                                         *)
(* A skill is a directory with a SKILL.md and, perhaps, a resource file.   *)
(* A text of a SKILL.md is a number, and so is a name: the order of names  *)
(* is the alphabetical one.                                                *)
(***************************************************************************)
EXTENDS Naturals

CONSTANTS Names, BadNames, \* directory names; those _is_valid_skill_name refuses
          Shipped,         \* extensions/skills: name -> directory
          Packs,           \* zip files: sets of directories, as functions
          Bodies           \* SKILL.md texts that are written

NoMd  == 0
Torn  == 1   \* cut short
NoDir == [md |-> NoMd, res |-> FALSE, exists |-> FALSE]
Dir(md, res) == [md |-> md, res |-> res, exists |-> TRUE]

VARIABLES
  dir,    \* the directories under skills_root
  up,     \* the runtime is running
  answer  \* to the last request: its status, and of two kinds of 400 which

vars == <<dir, up, answer>>

Init ==
  /\ dir = [n \in Names |-> NoDir]
  /\ up = FALSE /\ answer = "none"

\* What a copy, a write or an rmtree that stops half-way leaves of two directories.
Halves(old, new) ==
  LET mds == {old.md, new.md} \cup (IF new.md \in {old.md, NoMd} THEN {} ELSE {Torn})
  IN  {d \in {Dir(md, res) : md \in mds, res \in {old.res, new.res}} : d # new}

\* Files of the pack are written over those that are there.
Merge(old, new) ==
  Dir(IF new.md = NoMd THEN old.md ELSE new.md, old.res \/ new.res)

\* Mutant: a directory is complete, and not copied again, only with its SKILL.md.
ToCopy_Incomplete == {n \in DOMAIN Shipped : Shipped[n].md # NoMd /\ dir[n].md = NoMd}

\* sync_extension_skills: skills that are shipped and have no directory yet.
ToCopy == {n \in DOMAIN Shipped : Shipped[n].md # NoMd /\ ~dir[n].exists}

\* What an OSError leaves of a copy: part of it, or no directory.
Failed(n) == Halves(Dir(NoMd, FALSE), Shipped[n]) \cup {NoDir}

\* What copying leaves of some directories, whether it succeeds or fails.
Copies(S) == {c \in [S -> UNION {{Shipped[n]} \cup Failed(n) : n \in S}] :
                \A n \in S : c[n] \in {Shipped[n]} \cup Failed(n)}

\* The runtime starts: every missing directory is copied; where that fails, the others
\* go on.
Sync ==
  /\ ~up /\ up' = TRUE /\ answer' = "none"
  /\ \E copy \in Copies(ToCopy) :
       dir' = [n \in Names |-> IF n \in ToCopy THEN copy[n] ELSE dir[n]]

\* The process dies while it copies: earlier names are done, this one is not whole.
SyncDies ==
  /\ ~up
  /\ \E n \in ToCopy : \E half \in Failed(n) : \E copy \in Copies({m \in ToCopy : m < n}) :
       dir' = [m \in Names |-> IF m = n THEN half ELSE IF m \in DOMAIN copy THEN copy[m] ELSE dir[m]]
  /\ answer' = "none" /\ UNCHANGED up

\* extract_skill_zip: nothing is written unless every directory has a good
\* name and a SKILL.md.  (What is no zip file at all is refused as well.)
Rejected(pack) == \E n \in DOMAIN pack : n \in BadNames \/ pack[n].md = NoMd

Upload(pack) ==
  /\ up
  /\ IF Rejected(pack)
       THEN answer' = "400" /\ UNCHANGED dir
       ELSE /\ answer' = "200"
            /\ dir' = [n \in Names |-> IF n \in DOMAIN pack THEN Merge(dir[n], pack[n]) ELSE dir[n]]
  /\ UNCHANGED up

\* A file cannot be written: directories are unpacked in order up to there.
UploadFails(pack) ==
  /\ up /\ ~Rejected(pack)
  /\ \E n \in DOMAIN pack : \E half \in Halves(dir[n], Merge(dir[n], pack[n])) :
       /\ dir' = [m \in Names |-> IF m = n THEN half
                                  ELSE IF m \in DOMAIN pack /\ m < n THEN Merge(dir[m], pack[m])
                                  ELSE dir[m]]
  /\ answer' = "500" /\ UNCHANGED up

\* What is unpacked of a directory before an entry that cannot be read, SKILL.md or the
\* resource: the entries come in any order.
UpToBadEntry(old, packed) ==
  LET new == Merge(old, packed) IN
  {Dir(old.md, res) : res \in {old.res, new.res}}
    \cup (IF packed.res THEN {Dir(md, old.res) : md \in {old.md, new.md}} ELSE {})

\* The zip is damaged inside: zf.read raises BadZipFile in the pass that writes, and the
\* request is answered like one for something that is no zip file.
UploadDamaged(pack) ==
  /\ up /\ ~Rejected(pack)
  /\ \E n \in DOMAIN pack : \E half \in UpToBadEntry(dir[n], pack[n]) :
       dir' = [m \in Names |-> IF m = n THEN half
                               ELSE IF m \in DOMAIN pack /\ m < n THEN Merge(dir[m], pack[m])
                               ELSE dir[m]]
  /\ answer' = "400 invalid zip" /\ UNCHANGED up

\* Mutant: the directory is made before the name is looked at.
Put_MakesDir(n, body) ==
  /\ up
  /\ dir' = [dir EXCEPT ![n] = IF n \in BadNames THEN Dir(@.md, @.res) ELSE Dir(body, @.res)]
  /\ answer' = IF n \in BadNames THEN "400" ELSE "200"
  /\ UNCHANGED up

\* SkillService.write: the text replaces SKILL.md, in a directory made for it.
Wrote(n, body) == dir' = [dir EXCEPT ![n] = Dir(body, @.res)]

\* PUT /debug/skills/<name>.
Put(n, body) ==
  /\ up
  /\ IF n \in BadNames
       THEN answer' = "400" /\ UNCHANGED dir
       ELSE answer' = "200" /\ Wrote(n, body)
  /\ UNCHANGED up

\* The directory is made, or SKILL.md emptied, and then the write fails.
PutFails(n) ==
  /\ up /\ n \notin BadNames
  /\ \E md \in {dir[n].md, Torn} : Wrote(n, md)
  /\ answer' = "500" /\ UNCHANGED up

\* SkillService.delete; rmtree may fail half-way.
Deleted(n) ==
  \/ answer' = "200" /\ dir' = [dir EXCEPT ![n] = NoDir]
  \/ answer' = "500" /\ \E half \in Halves(dir[n], NoDir) : dir' = [dir EXCEPT ![n] = half]

\* DELETE /debug/skills/<name>.
Delete(n) ==
  /\ up
  /\ CASE n \in BadNames   -> answer' = "400" /\ UNCHANGED dir
       [] n \notin BadNames /\ ~dir[n].exists -> answer' = "404" /\ UNCHANGED dir
       [] OTHER -> Deleted(n)
  /\ UNCHANGED up

\* The runtime stops, or dies between two requests.
Stop == up /\ up' = FALSE /\ answer' = "none" /\ UNCHANGED dir

Next ==
  \/ Sync \/ SyncDies \/ Stop
  \/ \E pack \in Packs : Upload(pack) \/ UploadFails(pack) \/ UploadDamaged(pack)
  \/ \E n \in Names : Delete(n) \/ PutFails(n) \/ \E body \in Bodies : Put(n, body)

Spec == Init /\ [][Next]_vars

-----------------------------------------------------------------------------
\* A request that is refused for what it asks has changed nothing on the disk: names and
\* SKILL.md files are checked before the first write (skill_upload.py 65-79).  It is not
\* true of a damaged zip, which is refused when part of it is unpacked; but that, too, only
\* adds and replaces: no file that a directory had is gone or cut short.
RefusedChangesNothing ==
  [][/\ answer' \in {"400", "404"} => UNCHANGED dir
     /\ answer' = "400 invalid zip" =>
          \A n \in Names : /\ dir[n].exists => dir'[n].exists
                           /\ dir[n].res => dir'[n].res
                           /\ dir'[n].md # dir[n].md => dir'[n].md \notin {NoMd, Torn}]_vars

\* A start never touches a directory that exists, edited or half deleted, nor
\* does one that dies while it copies.
StartKeepsEdits == [][~up => \A n \in Names : dir[n].exists => dir'[n] = dir[n]]_vars
=============================================================================
