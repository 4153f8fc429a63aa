------------------------------- MODULE Skills -------------------------------
(***************************************************************************)
(* The skills of a server (mcp/skills.py): FilesystemSkillSource reads     *)
(* them once, when it is made, while their files may be edited; later a    *)
(* file is read from disk, or from a custom source, when a client asks for *)
(* it, and must be what the manifest says.                                 *)
(*                                                                         *)
(* A path is the sequence of its segments.  A content is [text, size,      *)
(* front]: its digest tells its text, front is the frontmatter of a        *)
(* SKILL.md, or "invalid".                                                 *)
(***************************************************************************)
EXTENDS Naturals, FiniteSets, Sequences, SequencesExt

CONSTANTS
  Disk,       \* the skill directories at first: of each name its files
  Customs,    \* what the custom source may hold: of each name its files, [content, inline]
  Contents,   \* what may be written to disk
  Binary,     \* the texts whose media type is not a text's
  MaxFiles, MaxBytes, MaxBlob,  \* max_files_per_skill, max_bytes_per_skill, max_blob_bytes
  MaxEdits    \* bound: changes of the disk and of the custom source

VARIABLES
  disk, custom, edits,
  loader,     \* FilesystemSkillSource.__init__ and load_skill
  loaded,     \* of each skill on disk its frontmatter and its manifest
  told,       \* what a client was told by resources/list and may still expect
  match,      \* the file a read is about
  answer      \* of the last read

skillVars == <<disk, custom, edits, loader, loaded, told, match, answer>>

Main == <<"SKILL.md">>
None == [n \in {} |-> {}]
Gone == [text |-> "gone", size |-> 0, front |-> "none"]
NoMatch == [from |-> "none", name |-> "none", path |-> <<>>, manifest |-> Gone, inline |-> FALSE]
NoAnswer == [outcome |-> "none", match |-> NoMatch, data |-> Gone, fresh |-> FALSE]
Idle == [at |-> "directory", todo |-> <<>>, front |-> "none", paths |-> {}, bytes |-> 0, files |-> None,
         edited |-> FALSE]
Loading == loader.at \in {"directory", "walk", "files"}
With(f, x, y) == [z \in DOMAIN f \union {x} |-> IF z = x THEN y ELSE f[z]]

\* What a file may ever hold.
ContentsOf(files) == UNION {{files[n][p] : p \in DOMAIN files[n]} : n \in DOMAIN files}
AllContents ==
  Contents \union (UNION {ContentsOf(d) : d \in Disk}) \union (UNION {{f.content : f \in ContentsOf(c)} : c \in Customs})

\* A directory has finitely many entries, and the digest and the size tell what was read.
SkillsAssumption ==
  /\ MaxEdits \in Nat
  /\ \A d \in Disk : IsFiniteSet(DOMAIN d)
  /\ \A d \in Disk \union Customs : \A n \in DOMAIN d : DOMAIN d[n] \subseteq Seq(STRING)
  /\ Gone \notin AllContents
  /\ \A c, d \in AllContents : c.text = d.text /\ c.size = d.size => c = d

SkillsInit ==
  /\ disk \in Disk /\ custom \in Customs /\ edits = 0
  /\ loader = [Idle EXCEPT !.todo = SetToSeq(DOMAIN disk)]
  /\ loaded = None /\ told = {} /\ match = NoMatch /\ answer = NoAnswer

-----------------------------------------------------------------------------
(* Loading, directory by directory *)

Current == Head(loader.todo)
Refuse == loader' = [loader EXCEPT !.at = "refused"]

\* A directory without SKILL.md is none of a skill; its frontmatter has to be sound.
ReadFrontmatter ==
  /\ loader.at = "directory" /\ loader.todo # <<>>
  /\ IF Main \notin DOMAIN disk[Current] THEN loader' = [loader EXCEPT !.todo = Tail(@)]
     ELSE IF disk[Current][Main].front = "invalid" THEN Refuse
     ELSE loader' = [loader EXCEPT !.at = "walk", !.front = disk[Current][Main].front]
  /\ UNCHANGED <<disk, custom, edits, loaded, told, match, answer>>

CollectPaths ==
  /\ loader.at = "walk"
  /\ IF Cardinality(DOMAIN disk[Current]) > MaxFiles THEN Refuse
     ELSE loader' = [loader EXCEPT !.at = "files", !.paths = DOMAIN disk[Current], !.bytes = 0, !.files = None]
  /\ UNCHANGED <<disk, custom, edits, loaded, told, match, answer>>

\* SKILL.md is read again, like every other file.
ReadPath ==
  /\ loader.at = "files"
  /\ \E p \in loader.paths :
       LET c == IF p \in DOMAIN disk[Current] THEN disk[Current][p] ELSE Gone
       IN IF c = Gone \/ loader.bytes + c.size > MaxBytes THEN Refuse
          ELSE loader' = [loader EXCEPT !.paths = @ \ {p}, !.bytes = @ + c.size, !.files = With(@, p, c)]
  /\ UNCHANGED <<disk, custom, edits, loaded, told, match, answer>>

FinishSkill ==
  /\ loader.at = "files" /\ loader.paths = {}
  /\ IF Main \notin DOMAIN loader.files THEN Refuse /\ UNCHANGED loaded
     ELSE /\ loaded' = With(loaded, Current, [front |-> loader.front, files |-> loader.files])
          /\ loader' = [loader EXCEPT !.at = "directory", !.todo = Tail(@)]
  /\ UNCHANGED <<disk, custom, edits, told, match, answer>>

Serve ==
  /\ loader.at = "directory" /\ loader.todo = <<>>
  /\ loader' = [loader EXCEPT !.at = "serving", !.edited = edits > 0]
  /\ UNCHANGED <<disk, custom, edits, loaded, told, match, answer>>

-----------------------------------------------------------------------------
(* The catalog: the skills on disk first, then those of the custom source *)

\* The files of the skill that a name stands for: the first source that has it.
Files(name) ==
  IF name \in DOMAIN loaded
  THEN [p \in DOMAIN loaded[name].files |-> [content |-> loaded[name].files[p], inline |-> FALSE]]
  ELSE custom[name]

Named == DOMAIN loaded \union DOMAIN custom

\* list_skills and resource_entries.
Entries ==
  UNION {{[name |-> n, path |-> p, content |-> Files(n)[p].content] : p \in DOMAIN Files(n)} : n \in Named}

\* Skill.list_directory: the names under a prefix, {} for a file or nothing.
Directory(name, prefix) ==
  LET under == {p \in DOMAIN Files(name) : IsStrictPrefix(prefix, p)}
  IN IF prefix \in DOMAIN Files(name) THEN {} ELSE {p[Len(prefix) + 1] : p \in under}

\* Only the size is compared.
FaultIntact(data, manifest) == data.size = manifest.size

\* verify_skill_file
Intact(data, manifest) == data.size = manifest.size /\ data.text = manifest.text

\* What is there to be read now.
Stored(m) ==
  CASE m.inline -> m.manifest
    [] ~m.inline /\ m.from = "disk" -> IF m.path \in DOMAIN disk[m.name] THEN disk[m.name][m.path] ELSE Gone
    [] OTHER -> IF m.name \in DOMAIN custom /\ m.path \in DOMAIN custom[m.name]
                THEN custom[m.name][m.path].content ELSE Gone

-----------------------------------------------------------------------------
(* What clients and authors do *)

ListResources ==
  /\ loader.at = "serving" /\ match = NoMatch
  /\ told' = Entries
  /\ UNCHANGED <<disk, custom, edits, loader, loaded, match, answer>>

\* resources/read, up to the file; a blob that is too large is not read.
GetFile(n, p) ==
  /\ loader.at = "serving" /\ match = NoMatch
  /\ LET found == n \in Named /\ p \in DOMAIN Files(n)
         m == [from |-> IF n \in DOMAIN loaded THEN "disk" ELSE "custom", name |-> n, path |-> p,
               manifest |-> Files(n)[p].content, inline |-> Files(n)[p].inline]
     IN IF ~found
        THEN answer' = [NoAnswer EXCEPT !.outcome = "notFound", !.match.name = n, !.match.path = p] /\ UNCHANGED match
        ELSE IF m.manifest.text \in Binary /\ m.manifest.size > MaxBlob
        THEN answer' = [NoAnswer EXCEPT !.outcome = "tooLarge", !.match = m] /\ UNCHANGED match
        ELSE match' = m /\ UNCHANGED answer
  /\ UNCHANGED <<disk, custom, edits, loader, loaded, told>>

\* The bytes, verified: a file that is gone cannot be opened, a custom source may say so itself.
ReadFile ==
  /\ match # NoMatch
  /\ LET data == Stored(match)
     IN answer' = [match |-> match, data |-> data, fresh |-> data = match.manifest,
                   outcome |-> CASE data = Gone -> IF match.from = "disk" THEN "unreadable" ELSE "notFound"
                                 [] data # Gone /\ Intact(data, match.manifest) -> "served"
                                 [] OTHER -> "integrity"]
  /\ match' = NoMatch
  /\ UNCHANGED <<disk, custom, edits, loader, loaded, told>>

\* A file is written, or removed, at any time.
Edit ==
  /\ edits < MaxEdits
  /\ edits' = edits + 1
  /\ \E n \in DOMAIN disk : \E p \in DOMAIN disk[n] :
       \/ \E c \in Contents : disk' = [disk EXCEPT ![n][p] = c]
       \/ disk' = [disk EXCEPT ![n] = [q \in DOMAIN @ \ {p} |-> @[q]]]
  /\ UNCHANGED <<custom, loader, loaded, told, match, answer>>

\* A custom source may answer differently every time it is asked.
Vary ==
  /\ edits < MaxEdits /\ ~Loading
  /\ edits' = edits + 1
  /\ custom' \in Customs
  /\ told' = {t \in told : t.name \in DOMAIN loaded}
  /\ UNCHANGED <<disk, loader, loaded, match, answer>>

SkillsRest == loader.at = "refused" /\ UNCHANGED skillVars

SkillsNext ==
  \/ ReadFrontmatter \/ CollectPaths \/ ReadPath \/ FinishSkill \/ Serve
  \/ ListResources \/ ReadFile \/ Edit \/ Vary \/ SkillsRest
  \/ \E n \in DOMAIN disk \union DOMAIN custom : \E p \in UNION {DOMAIN Files(m) : m \in Named} : GetFile(n, p)

-----------------------------------------------------------------------------
\* A skill that is served from disk has the frontmatter of the SKILL.md in its manifest, unless
\* it was edited while it was loaded.
FrontmatterFits ==
  loader.at = "serving" /\ ~loader.edited =>
    \A n \in DOMAIN loaded : loaded[n].front = loaded[n].files[Main].front

\* From the root of a skill every file can be reached through its directories, unless a file
\* has the name of one of them.
DirectoriesReach ==
  loader.at = "serving" =>
    \A n \in Named : \A p \in DOMAIN Files(n) :
      LET above == {SubSeq(p, 1, i) : i \in 0..(Len(p) - 1)}
      IN above \cap DOMAIN Files(n) = {} => \A q \in above : p[Len(q) + 1] \in Directory(n, q)

\* What a client reads is what it was told of, byte for byte, however files and sources change
\* between the listing, the look-up and the reading (mcp/skills.py:578); a file that did not
\* change is served, and what was listed is found.
ServedAsListed ==
  /\ answer.outcome = "served" =>
       /\ answer.data = answer.match.manifest
       /\ \A t \in told : t.name = answer.match.name /\ t.path = answer.match.path /\ answer.match.from = "disk"
                            => t.content = answer.data
  /\ answer.fresh => answer.outcome = "served"
  /\ answer.outcome = "notFound" /\ answer.match.name \in DOMAIN loaded =>
       ~\E t \in told : t.name = answer.match.name /\ t.path = answer.match.path
  /\ FrontmatterFits /\ DirectoriesReach

=============================================================================
