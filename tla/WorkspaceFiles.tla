--------------------------- MODULE WorkspaceFiles ---------------------------
(***************************************************************************)
(* One file of a workspace and the tools that change it, file_edit and     *)
(* file_write, in their two implementations: packages/tools/src/tools for  *)
(* the local backend, infra/modal/app.py for the Modal one.  The runs of a *)
(* workspace share its directory, so their calls interleave, and a write   *)
(* truncates the file before it fills it.                                  *)
(***************************************************************************)
EXTENDS Naturals, Sequences, SequencesExt

CONSTANTS
  FileEdits,   \* calls of file_edit
  FileWrites,  \* calls of file_write
  Texts,       \* contents a file starts with or is overwritten with
  OldStrings,  \* what edits look for
  NewStrings,  \* what they put in its place
  FileEvents,  \* what may go wrong: "crash"
  SizeBound    \* longest content an edit may leave

ASSUME FilesAssumption ==
  /\ FileEdits \cap FileWrites = {}
  /\ FileEvents \subseteq {"crash"}
  /\ SizeBound \in Nat
  /\ Texts \cup OldStrings \cup NewStrings \subseteq Seq(STRING)

FileCalls == FileEdits \cup FileWrites
NoArgs    == [old |-> <<>>, new |-> <<>>, all |-> FALSE]

VARIABLES
  host,      \* "local" or "modal": the backend of the deployment
  content,   \* the file
  fileCallAt,    \* where each call is
  args,      \* the arguments of each call
  read,      \* the content each edit read
  intended,  \* the content had every successful call been applied at once
  unseen,    \* calls whose file another call has written since they read it
  torn       \* a crash has cut a write short

fileVars == <<host, content, fileCallAt, args, read, intended, unseen, torn>>
-----------------------------------------------------------------------------
(* Replacement.                                                            *)

Matches(s, t, i) == i + Len(t) - 1 <= Len(s) /\ SubSeq(s, i, i + Len(t) - 1) = t

Places(s, t) == {i \in 1..Len(s) : Matches(s, t, i)}

\* Replaces the occurrences of t in s from left to right, new[i] taking the
\* place of the one at i; with all = FALSE only the first.
Replaced(s, t, all, new) ==
  LET scan[i \in 1..(Len(s) + 1), n \in BOOLEAN] ==
        IF i > Len(s) THEN <<>>
        ELSE IF n /\ Matches(s, t, i) THEN new[i] \o scan[i + Len(t), all]
        ELSE <<s[i]>> \o scan[i + 1, n]
  IN  scan[1, TRUE]

\* str.replace of Python, and what file_edit promises.
Exact(s, a) == Replaced(s, a.old, a.all, [i \in DOMAIN s |-> a.new])

\* String.prototype.replace and replaceAll read patterns in the replacement:
\* "$$" is a dollar, "$&" the match, a dollar and a grave accent (here "pre")
\* what precedes it, a dollar and an apostrophe ("post") what follows it.
PatternMarks == {"$", "&", "pre", "post"}

Expansion(s, a, i) ==
  LET stands == [c \in PatternMarks |->
                   CASE c = "$" -> <<"$">>
                     [] c = "&" -> a.old
                     [] c = "pre" -> SubSeq(s, 1, i - 1)
                     [] c = "post" -> SubSeq(s, i + Len(a.old), Len(s))]
      expand[j \in 1..(Len(a.new) + 1)] ==
        IF j > Len(a.new) THEN <<>>
        ELSE IF a.new[j] = "$" /\ j < Len(a.new) /\ a.new[j + 1] \in DOMAIN stands
             THEN stands[a.new[j + 1]] \o expand[j + 2]
             ELSE <<a.new[j]>> \o expand[j + 1]
  IN  expand[1]

HasPattern(a) ==
  \E j \in 1..(Len(a.new) - 1) : a.new[j] = "$" /\ a.new[j + 1] \in PatternMarks

Edited(s, a) ==
  IF host = "local"
    THEN Replaced(s, a.old, a.all, [i \in DOMAIN s |-> Expansion(s, a, i)])
    ELSE Exact(s, a)

\* "old_string not found in file" and "matches multiple locations".
Editable(s, a) ==
  /\ Places(s, a.old) # {}
  /\ a.all \/ \A i, j \in Places(s, a.old) : i = j
-----------------------------------------------------------------------------
FilesInit ==
  /\ host \in {"local", "modal"}
  /\ content \in Texts
  /\ fileCallAt   = [c \in FileCalls |-> "idle"]
  /\ args     = [c \in FileCalls |-> NoArgs]
  /\ read     = [c \in FileCalls |-> <<>>]
  /\ intended = content
  /\ unseen   = {}
  /\ torn     = FALSE

To(c, from, to) == fileCallAt[c] = from /\ fileCallAt' = [fileCallAt EXCEPT ![c] = to]

\* file_edit is called and reads the file.
ReadForEdit(e) ==
  \E old \in OldStrings, new \in NewStrings, all \in BOOLEAN :
    /\ To(e, "idle", "read")
    /\ args' = [args EXCEPT ![e] = [old |-> old, new |-> new, all |-> all]]
    /\ read' = [read EXCEPT ![e] = content]
    /\ UNCHANGED <<host, content, intended, unseen, torn>>

RefuseEdit(e) ==
  /\ ~Editable(read[e], args[e])
  /\ To(e, "read", "failed")
  /\ UNCHANGED <<host, content, args, read, intended, unseen, torn>>

\* The content an edit writes, and the one a file_write was given.
Outcome(c) == IF c \in FileEdits THEN Edited(read[c], args[c]) ELSE args[c].new

\* Mutant: the file is not emptied.
OpenInPlace(c) ==
  /\ content' = content
  /\ unseen' = unseen \cup {d \in FileEdits \ {c} : fileCallAt[d] \in {"read", "writing"}}
  /\ UNCHANGED <<host, read, intended, torn>>

\* writeFile and open("w") empty the file first.
Truncate(c) ==
  /\ content' = <<>>
  /\ unseen' = unseen \cup {d \in FileEdits \ {c} : fileCallAt[d] \in {"read", "writing"}}
  /\ UNCHANGED <<host, read, intended, torn>>

BeginEdit(e) ==
  /\ Editable(read[e], args[e])
  /\ Len(Outcome(e)) <= SizeBound
  /\ To(e, "read", "writing")
  /\ Truncate(e)
  /\ UNCHANGED args

BeginWrite(w) ==
  \E text \in Texts :
    /\ To(w, "idle", "writing")
    /\ args' = [args EXCEPT ![w].new = text]
    /\ Truncate(w)

\* A text written from the start of the file, over what there is.
WrittenOver(text, old) ==
  IF old = <<>> THEN text ELSE text \o SubSeq(old, Len(text) + 1, Len(old))

\* The text goes over what another call that emptied the file has written since, and
\* the call answers.  Calls that have read the file or emptied it before have not
\* seen the text.
Fill(c) ==
  /\ To(c, "writing", "done")
  /\ content' = WrittenOver(Outcome(c), content)
  /\ intended' = IF c \in FileEdits THEN Edited(intended, args[c]) ELSE args[c].new
  /\ unseen' = unseen \cup {d \in FileCalls \ {c} : fileCallAt[d] \in {"read", "writing"}}
  /\ UNCHANGED <<host, args, read, torn>>

\* The process of the tools ends between the two.
Crash ==
  /\ "crash" \in FileEvents
  /\ \E c \in FileCalls : fileCallAt[c] \in {"read", "writing"}
  /\ torn' = (torn \/ \E c \in FileCalls : fileCallAt[c] = "writing")
  /\ fileCallAt' = [c \in FileCalls |-> IF fileCallAt[c] \in {"read", "writing"} THEN "failed" ELSE fileCallAt[c]]
  /\ UNCHANGED <<host, content, args, read, intended, unseen>>

FilesNext ==
  \/ \E e \in FileEdits : ReadForEdit(e) \/ RefuseEdit(e) \/ BeginEdit(e)
  \/ \E w \in FileWrites : BeginWrite(w)
  \/ \E c \in FileCalls : Fill(c)
  \/ Crash

FilesSpec == FilesInit /\ [][FilesNext]_fileVars
-----------------------------------------------------------------------------
(* Properties.                                                             *)

FilesTypeOK ==
  /\ fileCallAt \in [FileCalls -> {"idle", "read", "writing", "done", "failed"}]
  /\ unseen \subseteq FileCalls
  /\ torn \in BOOLEAN
  /\ \A c \in FileEdits : fileCallAt[c] = "idle" => args[c] = NoArgs

Undisturbed(e) == fileCallAt[e] = "writing" /\ fileCallAt'[e] = "done" /\ e \notin unseen

\* "Perform exact string replacement in a file" (file-edit.ts:9): an edit that no
\* other call interferes with leaves what it read with new_string for old_string,
\* in both backends, unless new_string holds a pattern of JavaScript's replace and
\* the backend is the local one (file-edit.ts:68-70).
InexactEditExplained ==
  [][\A e \in FileEdits :
       Undisturbed(e) /\ content' # Exact(read[e], args[e])
       => host = "local" /\ HasPattern(args[e])]_fileVars

\* The file shows the effect of every call that succeeded, one after the other,
\* unless a call wrote it without having seen another's text (two runs of a
\* workspace in one file: nothing locks it), or a crash emptied it.
Underway == \E c \in FileCalls : fileCallAt[c] \in {"read", "writing"}

EditsAreKept ==
  ~Underway => content = intended \/ torn \/ \E c \in unseen : fileCallAt[c] = "done"

\* An edit reads the text the calls before it have left, unless another call is
\* just rewriting the file, has lost a text, or a crash has emptied it.
StaleReadExplained ==
  [][\A e \in FileEdits :
       fileCallAt[e] = "idle" /\ fileCallAt'[e] = "read" /\ content # intended
       => torn \/ \E c \in FileCalls : fileCallAt[c] = "writing" \/ c \in unseen]_fileVars
=============================================================================
