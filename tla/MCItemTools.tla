----------------------------- MODULE MCItemTools -----------------------------
EXTENDS ItemTools, Naturals, Sequences, SequencesExt

\* ------------------------------------------------------------------ lists
Blank(type, uuid) ==
    [type |-> type, uuid |-> uuid, title |-> {}, text |-> {}, editor |-> {}, refs |-> {},
     trashed |-> FALSE, deleted |-> FALSE, duplicateOf |-> "", active |-> FALSE]

noteA  == [Blank("Note", "n1") EXCEPT !.title = {"a"}, !.text = {"b"}, !.editor = {"e"}]
noteAB == [Blank("Note", "n2") EXCEPT !.title = {"a", "b"}, !.trashed = TRUE,
                                      !.duplicateOf = "n1", !.deleted = TRUE]
noteNo == [Blank("Note", "n3") EXCEPT !.text = {"a"}]
tagA   == [Blank("Tag", "t1") EXCEPT !.title = {"a"}, !.refs = {"n1", "n3"}]
tagB   == [Blank("Tag", "t2") EXCEPT !.title = {"b"}, !.refs = {"n2"}]
tagNo  == [Blank("Tag", "t3") EXCEPT !.refs = {"n1"}]
comp   == [Blank("Component", "c1") EXCEPT !.title = {"a"}, !.active = TRUE]
theme  == Blank("Theme", "x1")

SomeLists == {<<noteA, noteAB, tagA, tagB, comp>>,
              <<tagNo, noteNo, noteA, tagB, theme>>,
              <<tagB, noteAB, tagNo, noteAB>>}

F(type, key, comparison, value) ==
    [type |-> type, key |-> key, comparison |-> comparison, value |-> value]

SomeFilters ==
    {F("Note", "title", c, {"a"}) : c \in {"~", "==", "!=", "contains"}}
    \cup {F("Note", "title", "~", {"("}), F("Note", "text", "!=", {"b"}), F("Note", "text", "like", {"b"}),
          F("Note", "editor", "contains", {"e"}),
          F("Note", "trash", "==", TRUE), F("Item", "trash", "!=", TRUE),
          F("Note", "tagtitle", "==", {"a"}), F("Note", "tagtitle", "~", {"b"}),
          F("Note", "taguuid", "==", "t2"), F("Note", "taguuid", "!=", "t1"),
          F("Note", "duplicateof", "==", "n1"), F("Note", "deleted", "==", FALSE),
          F("Tag", "title", "==", {"a"}), F("Tag", "title", "!=", {"a"}), F("Tag", "title", "like", {"a"}),
          F("Component", "name", "~", {"a"}), F("Component", "active", "==", FALSE),
          F("Item", "uuid", "==", "n1"), F("Item", "uuid", "==", "x1"), F("Item", "type", "", "")}

\* Filters that are combined with each of the others, in both orders.
Companions == {F("Note", "title", "~", {"a"}), F("Item", "type", "", ""), F("Note", "tagtitle", "==", {"a"}),
               F("Tag", "title", "==", {"a"}), F("Item", "uuid", "==", "n1")}

SomeAsks == {[any |-> any, filters |-> fs] : any \in BOOLEAN,
                                             fs \in {<<f>> : f \in SomeFilters}
                                                    \cup SomeFilters \X Companions
                                                    \cup Companions \X SomeFilters}

\* ------------------------------------------------------------------ tasks
SomeTitles == {<<"a">>, <<"b", "NL", "a">>, <<"bn", "b">>}

\* -------------------------------------------------------------- conflicts
Mine(uuid, key, refs, deleted) ==
    [uuid |-> uuid, type |-> "Note", key |-> key, refs |-> refs, deleted |-> deleted,
     stamp |-> 2, content |-> "mine", duplicateOf |-> None, parses |-> TRUE]

Theirs(uuid, type, key, refs, deleted, stamp) ==
    [uuid |-> uuid, type |-> type, key |-> key, refs |-> refs, deleted |-> deleted,
     stamp |-> stamp, content |-> "theirs", duplicateOf |-> None, parses |-> TRUE]

Unparsed(item) == [item EXCEPT !.parses = FALSE]

MineOf(uuid, other) ==
    {Mine(uuid, key, refs, FALSE) : key \in {"new", "old"}, refs \in {{}, {other}}}
    \cup {Mine(uuid, "lost", {}, FALSE), Mine(uuid, None, {}, TRUE),
          Unparsed(Mine(uuid, "new", {}, FALSE))}

C(type, unsaved, server) == [type |-> type, unsaved |-> unsaved, server |-> server]

TheirsOf(uuid, other) ==
    {Theirs(uuid, "Note", key, {other}, FALSE, 3) : key \in {"new", "old"}}
    \cup {Theirs(uuid, "Note", "new", {}, FALSE, 1), Theirs(uuid, "Note", None, {}, TRUE, 3)}

ConflictsOf(mine, other) ==
    {C("sync_conflict", mine, theirs) : theirs \in TheirsOf(mine.uuid, other)}
    \cup {C("content_error", mine, Theirs(mine.uuid, "Note", "new", {other}, FALSE, 3)),
          C("content_error", mine, Unparsed(Theirs(mine.uuid, "Note", "new", {}, FALSE, 3))),
          C("content_error", mine, None), C("uuid_conflict", mine, None),
          C("uuid_error", mine, None), C("unknown", mine, None)}

\* An items key is pushed together with a note, and one of two notes or both
\* are in conflict, the first of them perhaps twice (in two pages).
SomeExchanges ==
    UNION {LET one == ConflictsOf(a, "u2")
               two == ConflictsOf(b, "u1")
           IN  {[pushed |-> <<a, b>>, conflicts |-> cs] :
                   cs \in {<<x>> : x \in one} \cup {<<x, x>> : x \in one}
                          \cup (one \X two) \cup {<<y, x>> : x \in one, y \in two}}
           : a \in MineOf("u1", "u2"), b \in MineOf("u2", "u1")}
    \cup (LET k == [Mine("u1", None, {}, FALSE) EXCEPT !.type = "ItemsKey"]
              n == Mine("u2", "new", {}, FALSE)
          IN  {[pushed |-> <<k, n>>, conflicts |-> <<c, C("uuid_conflict", n, None)>>] :
                  c \in {C("sync_conflict", k, Theirs("u1", "ItemsKey", None, {}, FALSE, 3)),
                         C("uuid_conflict", k, None)}})

=============================================================================
