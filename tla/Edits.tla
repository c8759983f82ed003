------------------------------- MODULE Edits -------------------------------
(***************************************************************************)
(* `migration edit`: the last migration file is edited in a temporary copy *)
(* that outlives the command, tried on the server, and renamed into place. *)
(* The text of a file is a body and the id it was given; the id of a body  *)
(* is the body here, as it is a hash of it.  In a project the command      *)
(* holds the exclusive project lock, without a project it holds none.      *)
(***************************************************************************)
EXTENDS Naturals

CONSTANTS
    Editors,      \* processes that run `migration edit`
    Texts,        \* bodies of a migration
    Accepted,     \* those that the server executes
    Absent,
    InProject,
    MaxSaves, MaxEdited, MaxByHand, MaxKilled

ASSUME EditsAssumption == Accepted \subseteq Texts /\ InProject \in BOOLEAN

VARIABLES
    file,     \* the last migration
    copy,     \* .editing.<n>.edgeql
    scratch,  \* the tmp_file_path of the migration
    session,  \* what each process does
    child,    \* the parent that a migration created later names
    base,     \* the file it was copied from (history)
    author,   \* how the file came to be what it is (history)
    saves, edited, byhand, killed

edits == <<file, copy, scratch, session, child, base, author, saves, edited, byhand, killed>>
bounds == <<saves, edited, byhand, killed>>

Junk == [body |-> Absent, id |-> Absent]    \* does not parse, or is not all there
Contents == [body : Texts, id : Texts]
ASSUME AbsentAssumption == Absent \notin Texts \cup Contents \cup {Junk}
Fixed(c) == [c EXCEPT !.id = c.body]
Sound(c) == c # Junk /\ c.id = c.body

Gone == [pc |-> "idle", mode |-> "none", data |-> Junk, resumed |-> FALSE]
In(p, pc) == session[p].pc = pc
Move(p, pc) == session' = [session EXCEPT ![p].pc = pc]
End(p) == session' = [session EXCEPT ![p] = Gone]

EditsInit ==
    /\ file \in {[body |-> b, id |-> b] : b \in Accepted} /\ copy = Absent /\ scratch = Absent
    /\ session = [p \in Editors |-> Gone] /\ child = Absent /\ base = Junk /\ author = "hand"
    /\ saves = 0 /\ edited = 0 /\ byhand = 0 /\ killed = 0

Unlocked(p) == InProject => \A q \in Editors \ {p} : In(q, "idle")

Opened(p, mode) ==
    session' = [session EXCEPT ![p] =
        [Gone EXCEPT !.mode = mode,
                     !.pc = CASE mode = "ask" -> IF copy = Absent THEN "copy" ELSE "old"
                              [] mode = "batch" -> "load"
                              [] mode = "nocheck" -> "direct"]]
BeginEditUnlocked(p, mode) ==
    /\ In(p, "idle") /\ child = Absent /\ edited < MaxEdited /\ edited' = edited + 1
    /\ Opened(p, mode)
    /\ UNCHANGED <<file, copy, scratch, child, base, author, saves, byhand, killed>>
\* Context::for_migration_config and the last file of read_names
BeginEdit(p, mode) ==
    /\ In(p, "idle") /\ Unlocked(p) /\ child = Absent /\ edited < MaxEdited /\ edited' = edited + 1
    /\ Opened(p, mode)
    /\ UNCHANGED <<file, copy, scratch, child, base, author, saves, byhand, killed>>

(* The interactive way *)

\* "Previously edited file exists. Restore?"; a diff changes nothing
AnswerOld(p) ==
    /\ In(p, "old")
    /\ \/ session' = [session EXCEPT ![p].pc = "editor", ![p].resumed = TRUE]
       \/ Move(p, "copy")
    /\ UNCHANGED <<file, copy, scratch, child, base, author, bounds>>

\* fs::copy(path, temp_path), here and to "restore original and abort"
CopyBegins(p) ==
    /\ In(p, "copy") \/ In(p, "restore")
    /\ copy' = Junk /\ base' = file
    /\ Move(p, IF In(p, "copy") THEN "copying" ELSE "restoring")
    /\ UNCHANGED <<file, scratch, child, author, bounds>>
Copied(p) ==
    /\ In(p, "copying") \/ In(p, "restoring")
    /\ copy' = file /\ IF In(p, "copying") THEN Move(p, "editor") ELSE End(p)
    /\ UNCHANGED <<file, scratch, child, base, author, bounds>>

\* The user types; nobody recomputes the id
Save(p) ==
    /\ In(p, "editor") /\ copy # Absent /\ saves < MaxSaves /\ saves' = saves + 1
    /\ \E c \in {Junk} \cup {[body |-> b, id |-> IF copy = Junk THEN b ELSE copy.id] : b \in Texts} :
          copy' = c
    /\ UNCHANGED <<file, scratch, session, child, base, author, edited, byhand, killed>>

\* spawn_editor returns, the file is read and parsed
Close(p) ==
    /\ In(p, "editor")
    /\ \/ End(p)                                     \* the editor fails, or the file is gone
       \/ copy = Junk /\ Move(p, "invalid")
       \/ /\ copy \notin {Junk, Absent}
          /\ session' = [session EXCEPT ![p].data = Fixed(copy),
                                        ![p].pc = IF Sound(copy) THEN "check" ELSE "fix"]
    /\ UNCHANGED <<file, copy, scratch, child, base, author, bounds>>
\* fs::write(&temp_path, &new_data) with the id that fits
FixBegins(p) ==
    /\ In(p, "fix") /\ copy' = Junk /\ Move(p, "fixing")
    /\ UNCHANGED <<file, scratch, child, base, author, bounds>>
FixEnds(p) ==
    /\ In(p, "fixing") /\ copy' = session[p].data /\ Move(p, "check")
    /\ UNCHANGED <<file, scratch, child, base, author, bounds>>

CheckSkipsServer(p) ==
    /\ In(p, "check")
    /\ Move(p, IF session[p].mode = "ask" THEN "commit" ELSE "write")
    /\ UNCHANGED <<file, copy, scratch, child, base, author, bounds>>
\* check_migration: START TRANSACTION, the text, ROLLBACK; a lost connection fails it too
Check(p) ==
    /\ In(p, "check")
    /\ \/ /\ session[p].data.body \in Accepted
          /\ Move(p, IF session[p].mode = "ask" THEN "commit" ELSE "write")
       \/ IF session[p].mode = "ask" THEN Move(p, "refused") ELSE End(p)
    /\ UNCHANGED <<file, copy, scratch, child, base, author, bounds>>

\* "Edit again?": yes, restore and abort, or abort
Answer(p) ==
    /\ In(p, "invalid") \/ In(p, "refused")
    /\ Move(p, "editor") \/ Move(p, "restore") \/ End(p)
    /\ UNCHANGED <<file, copy, scratch, child, base, author, bounds>>

Replace(p, how) ==
    /\ copy # Absent
    /\ file' = copy /\ copy' = Absent /\ author' = how /\ End(p)
    /\ UNCHANGED <<scratch, child, base, bounds>>
\* FailAction::Force
ForceInto(p) == In(p, "refused") /\ Replace(p, "forced")
Take(p) == In(p, "commit") /\ Replace(p, "checked")

(* --non-interactive, and --no-check, whose editor works on the file itself *)

EditDirectly(p) ==
    /\ In(p, "direct") /\ saves < MaxSaves /\ saves' = saves + 1
    /\ \E c \in {Junk} \cup {[body |-> b, id |-> IF file = Junk THEN b ELSE file.id] : b \in Texts} :
          file' = c
    /\ author' = "hand"
    /\ UNCHANGED <<copy, scratch, session, child, base, edited, byhand, killed>>
\* The text is read and parsed
Load(p) ==
    /\ In(p, "direct") \/ In(p, "load")
    /\ IF file = Junk THEN End(p)
       ELSE session' = [session EXCEPT ![p].data = file,
                                       ![p].pc = IF In(p, "load") THEN "check" ELSE "write"]
    /\ UNCHANGED <<file, copy, scratch, child, base, author, bounds>>
\* The id is replaced, unless it is right; an old temporary file is removed
WriteScratch(p) ==
    /\ In(p, "write")
    /\ IF Sound(session[p].data) THEN End(p) /\ UNCHANGED scratch
       ELSE Move(p, "writing") /\ scratch' = Junk
    /\ UNCHANGED <<file, copy, child, base, author, bounds>>
ScratchWritten(p) ==
    /\ In(p, "writing") /\ scratch' = Fixed(session[p].data) /\ Move(p, "rename")
    /\ UNCHANGED <<file, copy, child, base, author, bounds>>
RenameScratch(p) ==
    /\ In(p, "rename") /\ scratch # Absent
    /\ file' = scratch /\ scratch' = Absent
    /\ author' = IF session[p].mode = "batch" THEN "checked" ELSE "unchecked"
    /\ End(p)
    /\ UNCHANGED <<copy, child, base, bounds>>

(* Around them *)

Kill(p) ==
    /\ ~In(p, "idle") /\ killed < MaxKilled /\ killed' = killed + 1 /\ End(p)
    /\ UNCHANGED <<file, copy, scratch, child, base, author, saves, edited, byhand>>
\* A version control system, or an editor of one's own; not beside a command
ByHand ==
    /\ \A p \in Editors : In(p, "idle")
    /\ child = Absent /\ byhand < MaxByHand /\ byhand' = byhand + 1
    /\ file' \in Contents \cup {Junk} /\ author' = "hand"
    /\ UNCHANGED <<copy, scratch, session, child, base, saves, edited, killed>>
\* `migration create` refuses files whose id is wrong, and takes the same lock
CreateNext ==
    /\ InProject => \A p \in Editors : In(p, "idle")
    /\ child = Absent /\ Sound(file) /\ child' = file.id
    /\ UNCHANGED <<file, copy, scratch, session, base, author, bounds>>

EditsNext ==
    \/ \E p \in Editors :
          \/ \E mode \in {"ask", "batch", "nocheck"} : BeginEdit(p, mode)
          \/ AnswerOld(p) \/ CopyBegins(p) \/ Copied(p) \/ Save(p) \/ Close(p)
          \/ FixBegins(p) \/ FixEnds(p) \/ Check(p) \/ Answer(p) \/ ForceInto(p) \/ Take(p)
          \/ EditDirectly(p) \/ Load(p) \/ WriteScratch(p) \/ ScratchWritten(p) \/ RenameScratch(p)
          \/ Kill(p)
    \/ ByHand \/ CreateNext

EditsSpec == EditsInit /\ [][EditsNext]_edits

(* Properties *)

\* What an edit leaves in place of a migration has the id of its text, and was accepted by
\* the server unless the user forced it or asked for no check, whatever was left behind by
\* edits that were killed half-way; and no edit changes the id that a migration created
\* later names as its parent (edit, edit_no_check, check_migration).
EditsInv ==
    /\ author = "checked" => Sound(file) /\ file.body \in Accepted
    /\ author \in {"unchecked", "forced"} => Sound(file)
    /\ child # Absent => file.id = child

\* An edit that was begun afresh replaces the very file it was copied from: what another
\* edit or the user put there since is not lost unknown to them (edit).
ReplacesWhatWasRead ==
    [][copy # Absent /\ copy' = Absent =>
          file = base \/ \E p \in Editors : session[p].resumed /\ session'[p] = Gone]_edits

=============================================================================
