---------------------------- MODULE ConfigEdits ----------------------------
(***************************************************************************)
(* The editor of the configuration of an agent or of the collector.        *)
(*                                                                         *)
(* The server keeps one text, a Java properties file, and a save replaces  *)
(* all of it.  The dialog reads the text and then the table of effective   *)
(* values; the form keeps drafts per key and works them back into the text *)
(* it read; the other mode edits the text itself.  Between the reads and   *)
(* the save another administrator may change the file.                     *)
(*                                                                         *)
(* A line is a key (or Comment) with a value; the value is a number and    *)
(* the backslashes it is written with, an escaped one being two.  Spelling *)
(* of lines, line ends and continuations, descriptions, labels, sections   *)
(* and the check of a value's form are left out.                           *)
(***************************************************************************)
EXTENDS Naturals, Sequences, SequencesExt, FiniteSets

CONSTANTS Keys,
          Values,       \* of a key; 0 is its default
          Slashes,      \* backslashes a hand-written value may contain: 0, 2
          MaxSaves      \* bound: saves of this window and changes by others

VARIABLES file,         \* the file of the server
          dialog,       \* "closed", "reading", "reread", "open", "saving", "failed"
          mode,         \* "form" or "text" or "editing"
          text,         \* the text read
          entries,      \* [Keys -> effective value], read after it
          edits,        \* drafts of the form: [SUBSET Keys -> value]
          draft,        \* the text in the editor
          asked,        \* the confirmation is on the screen
          error,
          sent,         \* the text of the save under way, <<>> if none
          base,         \* ghost: the text that save was made from
          made,         \* ghost: the drafts that save was made of
          busy,
          saves

vars == <<file, dialog, mode, text, entries, edits, draft, asked, error, sent, base,
          made, busy, saves>>

Comment == "#"
Default == [n |-> 0, slash |-> 0]
Written == [n : Values, slash : Slashes]
Line(k, v) == [key |-> k, val |-> v]

\* What reading makes of a value: a pair of backslashes is one, a single one is none.
Unescaped(v) == [v EXCEPT !.slash = @ \div 2]
Escaped(s)   == [i \in DOMAIN s |-> [s[i] EXCEPT !.val.slash = 2 * @]]

Of(k, s)  == {i \in DOMAIN s : s[i].key = k}
LastOf(k, s) == CHOOSE i \in Of(k, s) : \A j \in Of(k, s) : j <= i

\* Java properties: the last line of a key wins.
Effective(s) ==
  [k \in Keys |-> IF Of(k, s) = {} THEN Default ELSE Unescaped(s[LastOf(k, s)].val)]

(***************************************************************************)
(* The plan of the form.  A key set to its default loses all its lines; a  *)
(* key with lines gets the value in the last of them; another is appended. *)
(* A draft equal to the value read is no change.                           *)
(***************************************************************************)
Changes(ents, drafts) == {k \in DOMAIN drafts : drafts[k] # ents[k]}
Removed(ents, drafts) == {k \in Changes(ents, drafts) : drafts[k] = Default}
\* Mutant: the first line of a key is the one that is changed.
Replaced_First(s, k) == {CHOOSE i \in Of(k, s) : \A j \in Of(k, s) : i <= j}

Replaced(s, k) == {LastOf(k, s)}

\* Mutant: of a removed key only the line that counts is taken out.
PlanConfigEdits_OneLine(s, ents, drafts) ==
  LET set  == Changes(ents, drafts) \ Removed(ents, drafts)
      keep == SelectSeq([i \in DOMAIN s |->
                IF \E k \in set : Of(k, s) # {} /\ i \in Replaced(s, k)
                THEN Line(s[i].key, drafts[s[i].key]) ELSE s[i]],
                LAMBDA l : ~\E k \in Removed(ents, drafts) :
                               Of(k, s) # {} /\ l = s[LastOf(k, s)])
      new  == SetToSeq({k \in set : Of(k, s) = {}})
  IN  keep \o [i \in DOMAIN new |-> Line(new[i], drafts[new[i]])]

PlanConfigEdits(s, ents, drafts) ==
  LET set  == Changes(ents, drafts) \ Removed(ents, drafts)
      keep == SelectSeq([i \in DOMAIN s |->
                IF \E k \in set : Of(k, s) # {} /\ i \in Replaced(s, k)
                THEN Line(s[i].key, drafts[s[i].key]) ELSE s[i]],
                LAMBDA l : l.key \notin Removed(ents, drafts))
      new  == SetToSeq({k \in set : Of(k, s) = {}})
  IN  keep \o [i \in DOMAIN new |-> Line(new[i], drafts[new[i]])]

\* The server refuses an empty text; a file of nothing but defaults is a comment.
EnsureNotEmpty(s) == IF s = <<>> THEN <<Line(Comment, Default)>> ELSE s

NoEdits == [k \in {} |-> Default]
Without(f, k) == [j \in DOMAIN f \ {k} |-> f[j]]
Set(f, k, v)  == [j \in DOMAIN f \cup {k} |-> IF j = k THEN v ELSE f[j]]

-----------------------------------------------------------------------------
Files == UNION {[1..n -> {Line(k, v) : k \in Keys, v \in Written}
                           \cup {Line(Comment, Default)}] : n \in 0..3}
Init ==
  /\ file \in {f \in Files : Len(f) <= 2 \/ f[2].key = Comment}
  /\ dialog = "closed" /\ mode = "form"
  /\ text = <<>> /\ entries = Effective(<<>>)
  /\ edits = NoEdits /\ draft = <<>>
  /\ asked = FALSE /\ error = FALSE
  /\ sent = <<>> /\ base = <<>> /\ made = NoEdits /\ busy = FALSE
  /\ saves = 0

\* Reading takes the form and the editor off the screen, and their drafts with them.
Reading ==
  /\ dialog' = "reading"
  /\ edits' = NoEdits /\ draft' = <<>> /\ asked' = FALSE /\ error' = FALSE

Open ==
  /\ dialog = "closed" /\ ~busy
  /\ Reading
  /\ mode' = "form"
  /\ UNCHANGED <<file, text, entries, sent, base, made, busy, saves>>

GotText ==
  /\ dialog = "reading"
  /\ dialog' = "reread"
  /\ text' = file
  /\ UNCHANGED <<file, mode, entries, edits, draft, asked, error, sent, base, made, busy, saves>>

GotEntries ==
  /\ dialog = "reread"
  /\ dialog' = "open"
  /\ entries' = Effective(file)
  /\ UNCHANGED <<file, mode, text, edits, draft, asked, error, sent, base, made, busy, saves>>

ReadFails ==
  /\ dialog \in {"reading", "reread"}
  /\ dialog' = "failed"
  /\ UNCHANGED <<file, mode, text, entries, edits, draft, asked, error, sent, base, made,
                 busy, saves>>

\* Another window, or a person at the server.
Elsewhere ==
  /\ saves < MaxSaves
  /\ saves' = saves + 1
  /\ \E k \in Keys, v \in Written : file' = Append(SelectSeq(file, LAMBDA l : l.key # k), Line(k, v))
  /\ UNCHANGED <<dialog, mode, text, entries, edits, draft, asked, error, sent, base, made, busy>>

\* A switch of mode unmounts the form; only the editor of the text hides the switch.
SetMode ==
  /\ dialog = "open"
  /\ mode' \in {"form", "text", "editing"} \ {mode}
  /\ mode' = "editing" => mode = "text"
  /\ mode = "editing" => mode' = "text"
  /\ edits' = NoEdits /\ asked' = FALSE /\ error' = FALSE
  /\ draft' = IF mode' = "editing" THEN text ELSE <<>>
  /\ UNCHANGED <<file, dialog, text, entries, sent, base, made, busy, saves>>

SetValue ==
  /\ dialog = "open" /\ mode = "form"
  /\ \E k \in Keys : \E v \in {[n |-> n, slash |-> s \div 2] : n \in Values, s \in Slashes} :
       edits' = IF v = entries[k] THEN Without(edits, k) ELSE Set(edits, k, v)
  /\ asked' = FALSE
  /\ UNCHANGED <<file, dialog, mode, text, entries, draft, error, sent, base, made, busy, saves>>

Undo ==
  /\ dialog = "open" /\ mode = "form"
  /\ \/ \E k \in DOMAIN edits : edits' = Without(edits, k)
     \/ ~busy /\ edits # NoEdits /\ edits' = NoEdits
  /\ asked' = FALSE
  /\ UNCHANGED <<file, dialog, mode, text, entries, draft, error, sent, base, made, busy, saves>>

\* In the editor the line of a key is retyped, or taken out.
Type ==
  /\ dialog = "open" /\ mode = "editing"
  /\ \E i \in DOMAIN draft :
       \/ draft' = RemoveAt(draft, i)
       \/ \E v \in Written : draft' = [draft EXCEPT ![i].val = v]
  /\ UNCHANGED <<file, dialog, mode, text, entries, edits, asked, error, sent, base, made,
                 busy, saves>>

Dirty == IF mode = "form" THEN Changes(entries, edits) # {} ELSE draft # text

AskSave ==
  /\ dialog = "open" /\ mode # "text" /\ Dirty /\ ~asked
  /\ asked' = TRUE
  /\ UNCHANGED <<file, dialog, mode, text, entries, edits, draft, error, sent, base, made,
                 busy, saves>>

NotSave ==
  /\ asked /\ mode = "editing" /\ ~busy /\ asked' = FALSE
  /\ UNCHANGED <<file, dialog, mode, text, entries, edits, draft, error, sent, base, made,
                 busy, saves>>

\* The text goes out with every backslash doubled; the file is kept in one piece.
Save ==
  /\ asked /\ ~busy /\ saves < MaxSaves
  /\ Dirty
  /\ saves' = saves + 1
  /\ busy' = TRUE /\ error' = FALSE
  /\ sent' = Escaped(IF mode = "form"
                     THEN EnsureNotEmpty(PlanConfigEdits(text, entries, edits)) ELSE draft)
  /\ base' = text
  /\ made' = IF mode = "form" THEN edits ELSE NoEdits
  /\ UNCHANGED <<file, dialog, mode, text, entries, edits, draft, asked>>

\* An empty text is refused before it is sent.
Saved ==
  /\ busy /\ sent # <<>>
  /\ file' = sent
  /\ busy' = FALSE /\ sent' = <<>>
  /\ IF dialog = "open" THEN Reading ELSE UNCHANGED <<dialog, edits, draft, asked, error>>
  /\ mode' = IF mode = "editing" THEN "text" ELSE mode
  /\ UNCHANGED <<text, entries, base, made, saves>>

SaveFails ==
  /\ busy
  /\ busy' = FALSE /\ sent' = <<>>
  /\ error' = (dialog = "open")
  /\ UNCHANGED <<file, dialog, mode, text, entries, edits, draft, asked, base, made, saves>>

Close ==
  /\ dialog # "closed"
  /\ dialog' = "closed"
  /\ edits' = NoEdits /\ draft' = <<>> /\ asked' = FALSE /\ error' = FALSE
  /\ UNCHANGED <<file, mode, text, entries, sent, base, made, busy, saves>>

Next ==
  \/ Open \/ GotText \/ GotEntries \/ ReadFails \/ Elsewhere \/ SetMode \/ SetValue
  \/ Undo \/ Type \/ AskSave \/ NotSave \/ Save \/ Saved \/ SaveFails \/ Close

Spec == Init /\ [][Next]_vars

-----------------------------------------------------------------------------
(***************************************************************************)
(* A save of the form changes the meaning of the file by the drafts and    *)
(* nothing else: every key drafted has its draft, every other key what it  *)
(* had, the comments stay, and a key set to its default has no line left,  *)
(* so that it follows the default of a later version - for a file with     *)
(* repeated keys too, unless somebody changed it since it was read         *)
(* (configEdits.ts:97-166, and its header, lines 8-12).                    *)
(***************************************************************************)
Comments(s) == SelectSeq(s, LAMBDA l : l.key = Comment)
SavesStep ==
      (busy /\ ~busy' /\ file' = sent /\ made # NoEdits /\ base = file)
      => /\ \A k \in Keys : Effective(file')[k] =
                              IF k \in DOMAIN made THEN made[k] ELSE Effective(file)[k]
         /\ \A k \in DOMAIN made :
              made[k] = Default /\ Effective(file)[k] # Default => Of(k, file') = {}
         /\ Comments(file) # <<>> => Comments(file') = Comments(file)
SavesDrafts == [][SavesStep]_vars

(***************************************************************************)
(* The header of configEdits.ts (lines 8-9) says of a draft worked back    *)
(* into the text that no other line is touched: a key that was not drafted *)
(* keeps its value.  The save doubles the backslashes of the whole text,   *)
(* also the escaped ones that came from the file.                          *)
(***************************************************************************)
OthersUntouched ==
  [][ (busy /\ ~busy' /\ file' = sent /\ made # NoEdits /\ base = file)
      => \A k \in Keys \ DOMAIN made : Effective(file')[k] = Effective(file)[k] ]_vars
=============================================================================
