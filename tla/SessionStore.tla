---------------------------- MODULE SessionStore ----------------------------
(***************************************************************************)
(* Where a session works and with which toolboxes (kernel.py): toolboxes   *)
(* by name, the default toolbox of each working directory, the ordered     *)
(* stack of toolboxes of each session, its title and description, and the  *)
(* events that account for their changes.  Every operation is one          *)
(* immediate transaction, whichever of the processes that share the        *)
(* database runs it; d below is the working directory of that process.     *)
(*                                                                         *)
(* A toolbox is the number of its creation; toolboxes are never deleted.   *)
(* Tools are in ToolStore, a fork's context in Transcripts, the origin of  *)
(* a child in CallTree.  Changing the annotations of a session of another  *)
(* tree is refused; it is left out.                                        *)
(***************************************************************************)
EXTENDS Integers, Sequences, FiniteSets, SequencesExt

CONSTANTS
  Dirs,       \* working directories
  UserNames,  \* names that users give to toolboxes
  Sessions,   \* identifiers of sessions
  Annotated,  \* bound: the sessions whose annotations change; the stacks of
              \* the others do
  NoDir,      \* the directory of a session of the first schema
  MaxBoxes,   \* bound: toolboxes
  MaxEvents   \* bound: events of all sessions

ASSUME StoreAssumption ==
  /\ NoDir \notin Dirs /\ Annotated \subseteq Sessions
  /\ MaxBoxes \in Nat \ {0} /\ MaxEvents \in Nat

VARIABLES
  names,    \* the name of each toolbox
  default,  \* cwd_defaults: the toolbox of each directory, or 0
  legacy,   \* metadata legacy_fallback: a toolbox, or 0
  session,  \* the rows of sessions and session_toolboxes, by identifier
  log,      \* the events of each session
  first,    \* history: the stack each session was created with
  moved     \* history: directories whose toolbox was given to another

boxes == <<names, default, legacy>>
vars  == <<boxes, session, log, first, moved>>

Fields == {"title", "description"}
Texts  == {0, 1}    \* 0 is none

\* The name of the toolbox that is made for a directory: users give no such names.
Own(d) == <<"cwd", d>>

ASSUME NamesAssumption == \A d \in Dirs : Own(d) \notin UserNames

Names == UserNames \cup {Own(d) : d \in Dirs} \cup {<<"legacy", NoDir>>}
Boxes == DOMAIN names

Stack(s) == s # <<>> /\ IsInjective(s) /\ Range(s) \subseteq Boxes

Absent == [stack |-> <<>>]
Exists(s) == session[s] # Absent

Opened == {s \in Sessions : Exists(s)}

\* Where the changes of the stack, and of the annotations, are in a log.
Changes(events) == {n \in DOMAIN events : events[n].kind = "toolbox_selection_changed"}
Notes(events)   == {n \in DOMAIN events : events[n].kind = "session_annotation_changed"}

Latest(places) == CHOOSE n \in places : \A m \in places : m <= n

MayAppend(n) == Cardinality(UNION {{s} \X DOMAIN log[s] : s \in Sessions}) + n <= MaxEvents

Text == [Fields -> Texts]
Blank == [f \in Fields |-> 0]

TypeOK ==
  /\ names \in Seq(Names) /\ IsInjective(names) /\ Len(names) <= MaxBoxes
  /\ default \in [Dirs -> 0 .. Len(names)]
  /\ \A d, e \in Dirs : default[d] = default[e] /\ default[d] # 0 => d = e
  /\ legacy \in {0, 1}
  /\ moved \subseteq Dirs
  /\ \A s \in Opened :
       /\ session[s].cwd \in Dirs \cup {NoDir}
       /\ session[s].text \in Text /\ session[s].revision \in Nat
       /\ Stack(session[s].stack) /\ Stack(first[s])

\* A new database with the default of the process that made it, or one of the
\* first schema, migrated with its only toolbox and a session.
Init ==
  /\ log = [s \in Sessions |-> <<>>]
  /\ moved = {}
  /\ \/ /\ legacy = 0
        /\ \E d \in Dirs : /\ names = <<Own(d)>>
                           /\ default = [e \in Dirs |-> IF e = d THEN 1 ELSE 0]
        /\ session = [s \in Sessions |-> Absent]
        /\ first = [s \in Sessions |-> <<>>]
     \/ /\ legacy = 1
        /\ names = <<<<"legacy", NoDir>>>>
        /\ default = [d \in Dirs |-> 0]
        /\ \E old \in Sessions :
             /\ session = [s \in Sessions |-> IF s = old
                  THEN [cwd |-> NoDir, stack |-> <<1>>, text |-> Blank, revision |-> 0]
                  ELSE Absent]
             /\ first = [s \in Sessions |-> IF s = old THEN <<1>> ELSE <<>>]

-----------------------------------------------------------------------------
(* Toolboxes and directories                                               *)

\* _create_toolbox_connection refuses a name in use.
MayName(n) == n \notin Range(names) /\ Len(names) < MaxBoxes

\* Mutant: the toolbox that is made for a directory is not entered as its default.
EnsureUnmapped(d, box) ==
  \/ /\ default[d] # 0 /\ box = default[d] /\ UNCHANGED <<names, default>>
  \/ /\ default[d] = 0 /\ legacy # 0 /\ box = legacy /\ UNCHANGED <<names, default>>
  \/ /\ default[d] = 0 /\ legacy = 0 /\ MayName(Own(d))
     /\ box = Len(names) + 1 /\ names' = Append(names, Own(d)) /\ UNCHANGED default

\* _ensure_cwd_default, which returns box.
Ensure(d, box) ==
  \/ /\ default[d] # 0 /\ box = default[d]
     /\ UNCHANGED <<names, default>>
  \/ /\ default[d] = 0 /\ legacy # 0 /\ box = legacy
     /\ UNCHANGED <<names, default>>
  \/ /\ default[d] = 0 /\ legacy = 0 /\ MayName(Own(d))
     /\ box = Len(names) + 1
     /\ names' = Append(names, Own(d))
     /\ default' = [default EXCEPT ![d] = box]

\* A lookup of a process without a session: _scope.
HostScope(d) ==
  /\ \E box \in 1 .. MaxBoxes : Ensure(d, box)
  /\ UNCHANGED <<legacy, session, log, first, moved>>

\* With a directory, the toolbox becomes its default in the place of another.
CreateToolbox(n, cwd) ==
  /\ MayName(n)
  /\ names' = Append(names, n)
  /\ default' = [d \in Dirs |-> IF d = cwd THEN Len(names) + 1 ELSE default[d]]
  /\ UNCHANGED <<legacy, session, log, first, moved>>

Rename(box, n) ==
  /\ n \notin Range(names)
  /\ names' = [names EXCEPT ![box] = n]
  /\ UNCHANGED <<default, legacy, session, log, first, moved>>

\* A toolbox is the default of one directory at most, and loses its former one.
SetCwdDefault(box, d) ==
  LET left == {e \in Dirs : default[e] = box} \ {d}
  IN /\ default' = [e \in Dirs |-> IF e = d THEN box ELSE IF e \in left THEN 0 ELSE default[e]]
     /\ moved' = moved \cup left
     /\ UNCHANGED <<names, legacy, session, log, first>>

-----------------------------------------------------------------------------
(* Sessions and their stacks                                               *)

CreateSession(s, d) ==
  \E box \in 1 .. MaxBoxes :
    /\ ~ Exists(s)
    /\ Ensure(d, box)
    /\ session' = [session EXCEPT ![s] =
         [cwd |-> d, stack |-> <<box>>, text |-> Blank, revision |-> 0]]
    /\ first' = [first EXCEPT ![s] = <<box>>]
    /\ UNCHANGED <<legacy, log, moved>>

Launch(s, d) == IF session[s].cwd = NoDir THEN d ELSE session[s].cwd

\* The stacks that a call tree of the session may have started with.
Snapshots(s) ==
  {first[s]} \cup {log[s][n].after : n \in Changes(log[s])}

\* A child of the session whose scope was taken, however it has changed since.
CreateChildSession(s, parent, d) ==
  /\ ~ Exists(s) /\ Exists(parent)
  /\ \E stack \in Snapshots(parent) :
       /\ session' = [session EXCEPT ![s] =
            [cwd |-> Launch(parent, d), stack |-> stack, text |-> Blank, revision |-> 0]]
       /\ first' = [first EXCEPT ![s] = stack]
  /\ UNCHANGED <<boxes, log, moved>>

\* _replace_selection with its event.
ReplaceSelection(s, request, after) ==
  /\ MayAppend(1)
  /\ session' = [session EXCEPT ![s].stack = after]
  /\ log' = [log EXCEPT ![s] = Append(@,
       [kind |-> "toolbox_selection_changed", before |-> session[s].stack, after |-> after])]
  /\ UNCHANGED <<legacy, first, moved>>

\* The sequence without some of its elements.
Without(seq, left) ==
  LET kept[n \in 0 .. Len(seq)] ==
        IF n = 0 THEN <<>>
        ELSE IF seq[n] \in left THEN kept[n - 1] ELSE Append(kept[n - 1], seq[n])
  IN kept[Len(seq)]

UseToolboxes(s, request) ==
  /\ Exists(s)
  /\ ReplaceSelection(s, request, request)
  /\ UNCHANGED <<names, default>>

\* Mutant: what is selected already is added again.
AddToolboxesAgain(s, request) ==
  /\ Exists(s)
  /\ ReplaceSelection(s, request, session[s].stack \o request)
  /\ UNCHANGED <<names, default>>

AddToolboxes(s, request) ==
  /\ Exists(s)
  /\ LET stack == session[s].stack
     IN ReplaceSelection(s, request, stack \o Without(request, Range(stack)))
  /\ UNCHANGED <<names, default>>

\* To the default of the session's directory, whichever it is by now.
ResetToolboxes(s, d) ==
  /\ Exists(s)
  /\ \E box \in 1 .. MaxBoxes :
       Ensure(Launch(s, d), box) /\ ReplaceSelection(s, <<>>, <<box>>)

RemoveToolboxes(s, d, request) ==
  /\ Exists(s)
  /\ LET left == Without(session[s].stack, Range(request))
     IN IF left # <<>>
        THEN ReplaceSelection(s, request, left) /\ UNCHANGED <<names, default>>
        ELSE \E box \in 1 .. MaxBoxes :
               Ensure(Launch(s, d), box) /\ ReplaceSelection(s, request, <<box>>)

-----------------------------------------------------------------------------
(* Annotations                                                             *)

\* The text at one of the revisions: what a handle that read it then holds
\* (SessionAccess.get, ToolSession).
Setting(events, field, revision) ==
  {n \in Notes(events) : events[n].revision <= revision /\ events[n].field = field}

TextAt(events, revision) ==
  [f \in Fields |->
     IF Setting(events, f, revision) = {} THEN 0
     ELSE events[Latest(Setting(events, f, revision))].new]

\* The revision of each of the changes of an update.
Revisions(s, changed) ==
  [n \in DOMAIN changed |-> session[s].revision + n]

\* The fields an update sets to something else, in the order of the update.
Changed(s, update) ==
  Without(<<"title", "description">>,
          {f \in Fields : f \in DOMAIN update => update[f] = session[s].text[f]})

\* expected_revision=None, which is its default: the update is not guarded.
Unguarded == -1

\* Mutant: any revision the session has had will do.
MatchesAny(s, expected) == expected <= session[s].revision

\* The revision is compared only if the caller gives one.
Matches(s, expected) == expected \in {Unguarded, session[s].revision}

Written(s, update) ==
  LET changed == Changed(s, update)
      text    == [f \in Fields |-> IF f \in DOMAIN update THEN update[f] ELSE session[s].text[f]]
      last    == IF changed = <<>> THEN session[s].revision
                 ELSE Revisions(s, changed)[Len(changed)]
  IN [session[s] EXCEPT !.text = text, !.revision = last]

\* _update_session_metadata.  seen is the revision that the writer has read, at any
\* time before: he passes it as expected, or nothing.  The event keeps, for
\* history, what he passed and by whom it was made: the text that he read.
Update(s, update, seen, expected) ==
  LET changed  == Changed(s, update)
      event(n) == [kind |-> "session_annotation_changed", field |-> changed[n],
                   old |-> session[s].text[changed[n]], new |-> update[changed[n]],
                   revision |-> Revisions(s, changed)[n],
                   expected |-> expected, by |-> TextAt(log[s], seen)]
  IN /\ Exists(s)
     /\ seen <= session[s].revision
     /\ Matches(s, expected)
     /\ MayAppend(Len(changed))
     /\ session' = [session EXCEPT ![s] = Written(s, update)]
     /\ log' = [log EXCEPT ![s] = @ \o [n \in DOMAIN changed |-> event(n)]]
     /\ UNCHANGED <<boxes, first, moved>>

-----------------------------------------------------------------------------
Requests == {r \in [1 .. 1 -> Boxes] \cup [1 .. 2 -> Boxes] : IsInjective(r)}
Updates  == UNION {[fs -> Texts] : fs \in SUBSET Fields \ {{}}}

Next ==
  \/ \E d \in Dirs :
       \/ HostScope(d)
       \/ \E box \in Boxes : SetCwdDefault(box, d)
       \/ \E s \in Sessions : CreateSession(s, d)
       \/ \E s, parent \in Sessions : CreateChildSession(s, parent, d)
       \/ \E s \in Sessions \ Annotated :
            \/ ResetToolboxes(s, d)
            \/ \E request \in Requests : RemoveToolboxes(s, d, request)
  \/ \E n \in UserNames :
       \/ \E cwd \in Dirs \cup {NoDir} : CreateToolbox(n, cwd)
       \/ \E box \in Boxes : Rename(box, n)
  \/ \E s \in Sessions \ Annotated, request \in Requests :
       UseToolboxes(s, request) \/ AddToolboxes(s, request)
  \/ \E s \in Annotated, update \in Updates, seen \in 0 .. MaxEvents :
       \E expected \in {seen, Unguarded} : Update(s, update, seen, expected)

Spec == Init /\ [][Next]_vars

-----------------------------------------------------------------------------
(* Properties                                                              *)

\* create_session in directory d gets a default toolbox.
Opens(d) == default[d] # 0 \/ legacy # 0 \/ Own(d) \notin Range(names)

\* A session can be opened in every working directory (README.md:55, "Each
\* working directory has a default toolbox").
DirectoryOpens == \A d \in Dirs : Opens(d)

\* A directory stays usable, whatever is created, renamed, selected or mapped
\* around it, until a toolbox that was its default is made another's.
OpensUnlessMoved == \A d \in Dirs \ moved : Opens(d)

\* The stack before the n-th event, of a session created with the stack from.
StackAt(events, from, n) ==
  LET earlier == {m \in Changes(events) : m < n}
  IN IF earlier = {} THEN from ELSE events[Latest(earlier)].after

\* The changes of a stack since its creation lead to the stack: whoever replays
\* the durable events (README.md:206) ends where the session is.
SelectionExplained(events, from, stack) ==
  /\ \A n \in Changes(events) : events[n].before = StackAt(events, from, n)
  /\ stack = StackAt(events, from, Len(events) + 1)

\* The changes of the annotations are numbered without a gap, each replaces what
\* the one before left of its field, and they lead to the annotations: the last
\* commit of a field wins, and the fields never overwrite one another.  Whoever
\* replaces a text that he has not read has passed no guard.
AnnotationsExplained(events, text, revision) ==
  /\ \A n \in Notes(events) :
       LET note == events[n]
       IN /\ note.revision = Cardinality({m \in Notes(events) : m <= n})
          /\ note.old = TextAt(events, note.revision - 1)[note.field]
          /\ note.expected # Unguarded => note.old = note.by[note.field]
  /\ text = TextAt(events, revision)
  /\ revision = Cardinality(Notes(events))

\* The log of a session accounts for its stack and its annotations.
LogExplains ==
  \A s \in Opened :
    /\ SelectionExplained(log[s], first[s], session[s].stack)
    /\ AnnotationsExplained(log[s], session[s].text, session[s].revision)
=============================================================================
