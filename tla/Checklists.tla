---------------------------- MODULE Checklists ----------------------------
(***************************************************************************)
(* src/items/checklist.go and advancedChecklist.go: the task list and the  *)
(* checklist with groups that a note holds as its text, and the operations *)
(* an application calls on them between reading and saving the note.       *)
(*                                                                         *)
(* A text is a sequence of tokens: the box of a task, "open" for "- [ ] "  *)
(* or "done" for "- [x] ", letters, the newline "NL" and the two-character *)
(* sequences the simple editor uses for it, "bn" for \n and "bbn" for the  *)
(* escaped \\n.  A title is a text without boxes, and a task list a        *)
(* sequence of [title, completed].                                         *)
(***************************************************************************)
EXTENDS Positions, SequencesExt

CONSTANTS Titles,      \* the titles an application may give to a task
          GroupNames,  \* the names it may give to a group
          MaxTasks,    \* bound on the tasks of one list
          MaxGroups    \* bound on the groups of one checklist

VARIABLES tasks,   \* Tasklist.Tasks
          text,    \* the text of the note of the task list
          saved,   \* the tasks that were written to it last
          read,    \* what reading it led to: "none", "list", "missing content", "panic"
          groups   \* AdvancedChecklist.Groups

checklistVars == <<tasks, text, saved, read, groups>>

Boxes == {"open", "done"}

\* what titles are written in
Letters == UNION {ElementsOf(title) : title \in Titles}

ASSUME TitlesAssumption ==
    /\ \A title \in Titles : title \in Seq(Letters)
    /\ Letters \cap Boxes = {}

Box(task) == IF task.completed THEN "done" ELSE "open"

\* Tasks.Sort puts the completed tasks last; sort.Slice is not stable.
Sorted(ts) ==
    {s \in {[k \in DOMAIN ts |-> ts[p[k]]] : p \in Bijection(DOMAIN ts, DOMAIN ts)} :
        \A j, k \in DOMAIN s : s[j].completed /\ j < k => s[k].completed}

\* what is written for one task; sep is empty after the last one
Line(ts, k) == <<Box(ts[k])>> \o ts[k].title \o (IF k = Len(ts) THEN <<>> ELSE <<"NL">>)

\* strings.Builder: the text of the first n tasks, for every n
Written(ts) ==
    LET builder[n \in 0..Len(ts)] == IF n = 0 THEN <<>> ELSE builder[n - 1] \o Line(ts, n)
    IN  builder

TasksToNoteText(ts) == Written(ts)[Len(ts)]

\* where a text is split, its ends included
Breaks(s, separator) == {k \in DOMAIN s : s[k] = separator} \cup {0, Len(s) + 1}

\* strings.Split: the stretches between one break and the next.
Split(s, separator) ==
    LET B == Breaks(s, separator)
    IN  [k \in 1..(Cardinality(B) - 1) |-> SubSeq(s, Nth(B, k) + 1, Nth(B, k + 1) - 1)]

\* Variant: newlines do not separate tasks.
LinesAtBn(s) == Split(s, "bn")

\* A text with newlines is split at these; one without at every \n.
Lines(s) == IF Contains(s, "NL") THEN Split(s, "NL") ELSE Split(s, "bn")

TaskOf(line) == [title |-> Tail(line), completed |-> Head(line) = "done"]

\* NoteTextToTasks reads a slice before its start when a line has no box.
Unreadable(s) == \E k \in DOMAIN Lines(s) : \A b \in Boxes : ~Contains(Lines(s)[k], b)

NoteTextToTasks(s) == Sorted([k \in DOMAIN Lines(s) |-> TaskOf(Lines(s)[k])])

-----------------------------------------------------------------------------
(* The operations on tasks that both kinds of list share.                  *)

Of(ts, title) == {k \in DOMAIN ts : ts[k].title = title}

\* Variant: only the first task of the title is changed.
SetFirstCompleted(ts, title, c) ==
    [k \in DOMAIN ts |-> IF ts[k].title = title /\ \A j \in Of(ts, title) : k <= j
                         THEN [ts[k] EXCEPT !.completed = c] ELSE ts[k]]

SetCompleted(ts, title, c) ==
    [k \in DOMAIN ts |-> IF ts[k].title = title THEN [ts[k] EXCEPT !.completed = c] ELSE ts[k]]

Without(ts, title) == At(ts, {k \in DOMAIN ts : ts[k].title # title})

Added(ts, title) == <<[title |-> title, completed |-> FALSE]>> \o ts

\* "task already complete": one completed task of the title is enough.
CanComplete(ts, title) == Of(ts, title) # {} /\ \A k \in Of(ts, title) : ~ts[k].completed

CanReopen(ts, title) == Of(ts, title) # {} /\ \A k \in Of(ts, title) : ts[k].completed

-----------------------------------------------------------------------------
(* The task list.                                                          *)

ChecklistInit == /\ tasks = <<>>
                 /\ text = <<>>
                 /\ saved = <<>>
                 /\ read = "none"
                 /\ groups = <<>>

AddTask(title) ==
    /\ Len(tasks) < MaxTasks
    /\ tasks' = Added(tasks, title)
    /\ UNCHANGED <<text, saved, read, groups>>

CompleteTask(title) ==
    /\ CanComplete(tasks, title)
    /\ tasks' = SetCompleted(tasks, title, TRUE)
    /\ UNCHANGED <<text, saved, read, groups>>

ReopenTask(title) ==
    /\ CanReopen(tasks, title)
    /\ tasks' = SetCompleted(tasks, title, FALSE)
    /\ UNCHANGED <<text, saved, read, groups>>

DeleteTask(title) ==
    /\ Of(tasks, title) # {}
    /\ tasks' = Without(tasks, title)
    /\ UNCHANGED <<text, saved, read, groups>>

\* TasksToNoteText sorts the list it is given in place.
Save == \E s \in Sorted(tasks) :
    /\ tasks' = s
    /\ saved' = s
    /\ text' = TasksToNoteText(s)
    /\ UNCHANGED <<read, groups>>

\* NoteContent.ToTaskList
ToTaskList ==
    /\ \/ /\ text = <<>>
          /\ read' = "missing content"
          /\ UNCHANGED tasks
       \/ /\ text # <<>> /\ Unreadable(text)
          /\ read' = "panic"
          /\ UNCHANGED tasks
       \/ /\ text # <<>> /\ ~Unreadable(text)
          /\ read' = "list"
          /\ tasks' \in NoteTextToTasks(text)
    /\ UNCHANGED <<text, saved, groups>>

-----------------------------------------------------------------------------
(* The checklist with groups.                                              *)

Named(name) == {g \in DOMAIN groups : groups[g].name = name}

NewGroup(name, ts) == Append(groups, [name |-> name, tasks |-> ts])

\* Every group of a name with other tasks.
InGroups(name, changed) ==
    [g \in DOMAIN groups |-> IF g \in Named(name)
                             THEN [groups[g] EXCEPT !.tasks = changed[g]]
                             ELSE groups[g]]

AddGroupTask(name, title) ==
    /\ \/ /\ Named(name) = {}
          /\ Len(groups) < MaxGroups
          /\ groups' = NewGroup(name, Added(<<>>, title))
       \/ \E first \in Named(name) :
             /\ \A g \in Named(name) : first <= g
             /\ Len(groups[first].tasks) < MaxTasks
             /\ groups' = [groups EXCEPT ![first].tasks = Added(groups[first].tasks, title)]
    /\ UNCHANGED <<tasks, text, saved, read>>

CompleteGroupTask(name, title) ==
    /\ \E g \in Named(name) : Of(groups[g].tasks, title) # {}
    /\ \A g \in Named(name) : \A k \in Of(groups[g].tasks, title) :
          ~groups[g].tasks[k].completed
    /\ groups' = InGroups(name, [g \in DOMAIN groups |-> SetCompleted(groups[g].tasks, title, TRUE)])
    /\ UNCHANGED <<tasks, text, saved, read>>

\* Unlike CompleteTask, a checklist reopens what is open already.
ReopenGroupTask(name, title) ==
    /\ \E g \in Named(name) : Of(groups[g].tasks, title) # {}
    /\ groups' = InGroups(name, [g \in DOMAIN groups |-> SetCompleted(groups[g].tasks, title, FALSE)])
    /\ UNCHANGED <<tasks, text, saved, read>>

DeleteGroupTask(name, title) ==
    /\ \E g \in Named(name) : Of(groups[g].tasks, title) # {}
    /\ groups' = InGroups(name, [g \in DOMAIN groups |-> Without(groups[g].tasks, title)])
    /\ UNCHANGED <<tasks, text, saved, read>>

AddGroup(name) ==
    /\ Named(name) = {}
    /\ Len(groups) < MaxGroups
    /\ groups' = NewGroup(name, <<>>)
    /\ UNCHANGED <<tasks, text, saved, read>>

DeleteGroup(name) ==
    /\ Named(name) # {}
    /\ groups' = At(groups, {g \in DOMAIN groups : groups[g].name # name})
    /\ UNCHANGED <<tasks, text, saved, read>>

TaskNext == \/ \E title \in Titles : \/ AddTask(title) \/ CompleteTask(title)
                                     \/ ReopenTask(title) \/ DeleteTask(title)
            \/ Save
            \/ ToTaskList

GroupNext == \E name \in GroupNames :
                \/ AddGroup(name)
                \/ DeleteGroup(name)
                \/ \E title \in Titles : \/ AddGroupTask(name, title)
                                         \/ CompleteGroupTask(name, title)
                                         \/ ReopenGroupTask(name, title)
                                         \/ DeleteGroupTask(name, title)

-----------------------------------------------------------------------------
\* Tasks are typed by the letters of their titles, and not by Titles: a task that
\* was read back may have a part of a title.
NoteTask == [title : Seq(Letters), completed : BOOLEAN]

\* The note holds what was written last.
NoteInv == /\ tasks \in Seq(NoteTask) /\ saved \in Seq(NoteTask)
           /\ text = TasksToNoteText(saved)
           /\ read \in {"none", "list", "missing content", "panic"}

Task == [title : Titles, completed : BOOLEAN]

Group == [name : GroupNames, tasks : Seq(Task)]

GroupsInv == groups \in Seq(Group)

SameTasks(s, t) == /\ Len(s) = Len(t)
                   /\ \A task \in Range(s) \cup Range(t) :
                         Cardinality({k \in DOMAIN s : s[k] = task})
                            = Cardinality({k \in DOMAIN t : t[k] = task})

\* A title the text keeps together: without newlines, and without the \n that
\* splits the text of a single task.
Plain(ts) == \A k \in DOMAIN ts : /\ ~Contains(ts[k].title, "NL")
                                  /\ Len(ts) = 1 => ~Contains(ts[k].title, "bn")

\* What is written into a note is read back: the same tasks, the completed
\* ones last, unless the list was empty or a title has a newline in it
\* (src/items/checklist.go:51 and 93).
SavedTextReadsBack ==
    (text # <<>> /\ Plain(saved)) =>
        /\ ~Unreadable(text)
        /\ \A ts \in NoteTextToTasks(text) :
              /\ SameTasks(ts, saved)
              /\ \A j, k \in DOMAIN ts : ts[j].completed /\ j < k => ts[k].completed

\* The tasks of a title in the groups of a name are all as one wants them, and
\* nothing else has changed.
OnlyTheTask(name, title) ==
    /\ DOMAIN groups' = DOMAIN groups
    /\ \A g \in DOMAIN groups :
          /\ groups'[g].name = groups[g].name
          /\ DOMAIN groups'[g].tasks = DOMAIN groups[g].tasks
          /\ \A k \in DOMAIN groups[g].tasks :
                /\ groups'[g].tasks[k].title = groups[g].tasks[k].title
                /\ groups[g].name # name \/ groups[g].tasks[k].title # title =>
                      groups'[g].tasks[k] = groups[g].tasks[k]
    /\ \E c \in BOOLEAN :
          \A g \in Named(name) : \A k \in Of(groups[g].tasks, title) :
             groups'[g].tasks[k].completed = c

\* Completing or reopening a task of a checklist changes the tasks of that
\* title in that group, all of them, and nothing else: no task is lost, moved
\* or changed in another group, although the list is rebuilt
\* (src/items/advancedChecklist.go:147-249).
OnlyTheTaskChanges ==
    [][\A name \in GroupNames, title \in Titles :
          CompleteGroupTask(name, title) \/ ReopenGroupTask(name, title) =>
             OnlyTheTask(name, title)]_checklistVars

=============================================================================
