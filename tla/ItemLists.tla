----------------------------- MODULE ItemLists -----------------------------
(***************************************************************************)
(* The list of items an application works on: the filters of               *)
(* src/items/filter.go, and removing duplicates, removing deleted items and*)
(* adding references (src/items/items.go).                                 *)
(*                                                                         *)
(* A text is the set of its letters, so that one text may contain another; *)
(* {} is the empty text.  A pattern is a text as well and matches the texts*)
(* that contain it; a pattern with the letter "(" does not compile.  A key *)
(* stands for all its spellings, which the code folds to lower case.       *)
(* Every item has every field; a filter reads those of the item's type,    *)
(* and the title of a component is its name.                               *)
(*                                                                         *)
(* One filter has one of five outcomes for an item: "yes" and "no" end the *)
(* walk over the filters, "matched" and "unmatched" are what is known when *)
(* it goes on, and "keep" leaves that as it was.                           *)
(***************************************************************************)
EXTENDS Positions

CONSTANTS Lists,     \* the lists of items an application may start with
          Asks,      \* the ItemFilters it may apply
          MaxSteps   \* bound on the operations on one list

FiltersOf(ask) == ElementsOf(ask.filters)

IsListItem(i) ==
    i \in [type : {i.type}, uuid : {i.uuid}, title : {i.title}, text : {i.text},
          editor : {i.editor}, refs : {i.refs}, trashed : BOOLEAN, deleted : {i.deleted},
          duplicateOf : {i.duplicateOf}, active : {i.active}]

IsItemList(list) == /\ list \in Seq(ElementsOf(list))
                    /\ \A i \in ElementsOf(list) : IsListItem(i)

ASSUME ListsAssumption ==
    /\ \A list \in Lists : IsItemList(list)
    /\ \A ask \in Asks : ask.any \in BOOLEAN /\ ask.filters \in Seq(FiltersOf(ask))

VARIABLES items,     \* the list
          steps      \* the operations so far

listVars == <<items, steps>>

\* CompileRegexFilters, or the filter itself when that was not called
Compiles(pattern) == "(" \notin pattern

\* Variant: a filter that must hold and does not is forgotten by the next one.
DecideUnstopped(holds, any) == IF holds THEN IF any THEN "yes" ELSE "matched" ELSE "unmatched"

Decide(holds, any) == CASE holds /\ any   -> "yes"
                        [] holds /\ ~any  -> "matched"
                        [] ~holds /\ any  -> "unmatched"
                        [] ~holds /\ ~any -> "no"

Usable(f) == /\ f.comparison \in {"~", "==", "!=", "contains"}
             /\ f.comparison = "~" => Compiles(f.value)

Compare(f, text) == CASE f.comparison = "=="  -> text = f.value
                      [] f.comparison = "!="  -> text # f.value
                      [] f.comparison \in {"~", "contains"} -> f.value \subseteq text

-----------------------------------------------------------------------------
(* Notes.                                                                  *)

NoteTextOf(f, guard, text, any) ==
    IF guard = {} \/ ~Usable(f) THEN "unmatched" ELSE Decide(Compare(f, text), any)

\* A title that "!=" rules out ends the walk when any filter would do, and
\* does not when all must hold.
applyNoteTitleFilter(f, note, any) ==
    IF note.title # {} /\ f.comparison = "!=" /\ note.title = f.value
    THEN IF any THEN "no" ELSE "unmatched"
    ELSE NoteTextOf(f, note.title, note.title, any)

\* A note without a title has no text either, for this filter.
applyNoteTextFilter(f, note, any) == NoteTextOf(f, note.title, note.text, any)

applyNoteEditorFilter(f, note, any) == NoteTextOf(f, note.editor, note.editor, any)

applyNoteTrashedFilter(f, note, any) ==
    CASE f.comparison = "==" -> Decide(note.trashed, any)
      [] f.comparison = "!=" -> Decide(~note.trashed, any)
      [] OTHER -> "unmatched"

\* When all filters must hold, the first tag with a title decides: a later
\* tag is read only if the first one matched.
applyNoteTagTitleFilter(f, note, tags, any) ==
    LET titled == {k \in DOMAIN tags : tags[k].title # {}}
        hit == {k \in titled : Compare(f, tags[k].title) /\ note.uuid \in tags[k].refs}
    IN  CASE f.comparison \notin {"~", "=="} \/ ~Usable(f) \/ titled = {} -> "unmatched"
          [] OTHER ->
             IF any
             THEN IF hit # {} THEN "yes" ELSE "unmatched"
             ELSE IF \E k \in titled \ hit : \A j \in titled : k <= j THEN "no"
                  ELSE IF Len(tags) \in titled THEN "matched" ELSE "unmatched"

applyNoteTagUUIDFilter(f, note, tags, any) ==
    LET found == {k \in DOMAIN tags : tags[k].uuid = f.value}
        tagged == \E k \in found : note.uuid \in tags[k].refs /\ \A j \in found : k <= j
    IN  CASE f.comparison = "=="             -> Decide(tagged, any)
          [] f.comparison = "!=" /\ tagged   -> IF any THEN "no" ELSE "unmatched"
          [] f.comparison = "!=" /\ ~tagged  -> IF any THEN "matched" ELSE "yes"
          [] OTHER                           -> "unmatched"

applyNoteFilter(f, note, tags, any) ==
    CASE f.type \notin {"Note", "Item"} -> "keep"
      [] OTHER -> CASE f.key = "title"       -> applyNoteTitleFilter(f, note, any)
                    [] f.key = "text"        -> applyNoteTextFilter(f, note, any)
                    [] f.key = "editor"      -> applyNoteEditorFilter(f, note, any)
                    [] f.key = "trash"       -> applyNoteTrashedFilter(f, note, any)
                    [] f.key = "tagtitle"    -> applyNoteTagTitleFilter(f, note, tags, any)
                    [] f.key = "taguuid"     -> applyNoteTagUUIDFilter(f, note, tags, any)
                    [] f.key = "uuid"        -> Decide(note.uuid = f.value, any)
                    [] f.key = "duplicateof" -> Decide(note.duplicateOf = f.value, any)
                    [] f.key = "deleted"     -> Decide(note.deleted = f.value, any)
                    [] OTHER                 -> "matched"

-----------------------------------------------------------------------------
(* Tags, components and the other types.                                   *)

TitleOf(f, item, any) ==
    CASE item.title = {} \/ (f.comparison = "~" /\ ~Compiles(f.value)) -> "unmatched"
      [] item.title # {} /\ Usable(f) -> Decide(Compare(f, item.title), any)
      [] OTHER -> "keep"

applyTagFilter(f, tag, any) ==
    CASE f.type \notin {"Tag", "Item"} -> "keep"
      [] OTHER -> CASE f.key = "title" -> TitleOf(f, tag, any)
                    [] f.key = "uuid"  -> Decide(tag.uuid = f.value, any)
                    [] OTHER           -> "matched"

applyComponentFilter(f, component, any) ==
    CASE f.type \notin {"Component", "Item"} -> "keep"
      [] OTHER -> CASE f.key = "name"   -> TitleOf(f, component, any)
                    [] f.key = "uuid"   -> Decide(component.uuid = f.value, any)
                    [] f.key = "active" -> Decide(component.active = f.value, any)
                    [] OTHER            -> "matched"

\* The other types do not look at the type a filter is for.
applyAnyTypeFilter(f, item, any) ==
    IF f.key = "uuid" THEN Decide(item.uuid = f.value, any) ELSE "unmatched"

Outcome(f, item, tags, any) ==
    CASE item.type = "Note"      -> applyNoteFilter(f, item, tags, any)
      [] item.type = "Tag"       -> applyTagFilter(f, item, any)
      [] item.type = "Component" -> applyComponentFilter(f, item, any)
      [] OTHER                   -> applyAnyTypeFilter(f, item, any)

\* One filter after the other, until one of them decides; without a decision,
\* the last that did not keep what was known.
Found(outcomes) ==
    \E k \in DOMAIN outcomes :
       \/ /\ outcomes[k] = "yes"
          /\ \A j \in 1..(k - 1) : outcomes[j] # "no"
       \/ /\ outcomes[k] = "matched"
          /\ \A j \in DOMAIN outcomes :
                /\ outcomes[j] \notin {"yes", "no"}
                /\ j > k => outcomes[j] = "keep"

TagsOf(is) == At(is, {i \in DOMAIN is : is[i].type = "Tag"})

Outcomes(ask, item, tags) ==
    [k \in DOMAIN ask.filters |-> Outcome(ask.filters[k], item, tags, ask.any)]

Kept(is, ask) == At(is, {i \in DOMAIN is : Found(Outcomes(ask, is[i], TagsOf(is)))})

KeptOfAllTypes(is, ask) ==
    At(is, {i \in DOMAIN is : Found([k \in DOMAIN ask.filters |->
                                       applyAnyTypeFilter(ask.filters[k], is[i], ask.any)])})

-----------------------------------------------------------------------------
ListInit == /\ items \in Lists
            /\ steps = 0

Filter(ask) == items' = Kept(items, ask)

FilterAllTypes(ask) == items' = KeptOfAllTypes(items, ask)

DeDupe == items' = At(items, {i \in DOMAIN items :
                                 \A j \in 1..(i - 1) : items[j].uuid # items[i].uuid})

RemoveDeleted == items' = At(items, {i \in DOMAIN items : ~items[i].deleted})

\* UpdateItemRefs with some tags or notes of the list and the items to refer
\* to.  Content is shared, so that the items of the list are changed; whether
\* a reference is there once or twice is left out.
UpdateItemRefs(referring, to) ==
    items' = [k \in DOMAIN items |->
                IF items[k].uuid \in referring /\ items[k].type \in {"Note", "Tag"}
                THEN [items[k] EXCEPT !.refs = @ \cup to]
                ELSE items[k]]

ItemsInv == IsItemList(items)

Uuids == {items[k].uuid : k \in DOMAIN items}

ListNext == /\ steps < MaxSteps
            /\ steps' = steps + 1
            /\ \/ \E ask \in Asks : Filter(ask) \/ FilterAllTypes(ask)
               \/ DeDupe
               \/ RemoveDeleted
               \/ \E one, other \in Uuids : UpdateItemRefs({one}, {other})

-----------------------------------------------------------------------------
(* What a filter says, item by item.                                       *)

Applies(f, item) == f.type \in {item.type, "Item"}

FieldOf(f, item) == CASE f.key \in {"title", "name"} -> item.title
                      [] f.key = "text"             -> item.text
                      [] f.key = "editor"           -> item.editor

Says(f, item, tags) ==
    LET tagged(t) == item.uuid \in t.refs
    IN  CASE f.key \in {"title", "name", "text", "editor"} -> Compare(f, FieldOf(f, item))
          [] f.key = "trash"       -> item.trashed = (f.comparison = "==")
          [] f.key = "tagtitle"    -> \E t \in ElementsOf(tags) : tagged(t) /\ Compare(f, t.title)
          [] f.key = "taguuid"     -> \E t \in ElementsOf(tags) : tagged(t) /\ t.uuid = f.value
          [] f.key = "uuid"        -> item.uuid = f.value
          [] f.key = "duplicateof" -> item.duplicateOf = f.value
          [] f.key = "deleted"     -> item.deleted = f.value
          [] f.key = "active"      -> item.active = f.value
          [] OTHER                 -> TRUE

\* The cases in which the code does what a filter says.  Outside of them are
\* empty fields, patterns that do not compile, unknown comparisons, "!=" for
\* the title of a note and for the id of its tag, two versions of that tag, tag
\* titles that must hold together with others, and a filter for a type only,
\* beside an alternative.
Regular(f, item, tags, any) ==
    IF item.type \notin {"Note", "Tag", "Component"}
    THEN f.key = "uuid" /\ Applies(f, item)
    ELSE Applies(f, item) =>
         CASE f.key = "title" /\ item.type = "Note" ->
                Usable(f) /\ item.title # {} /\ f.comparison # "!="
           [] f.key = "title" /\ item.type = "Tag" -> Usable(f) /\ item.title # {}
           [] f.key = "name" /\ item.type = "Component" -> Usable(f) /\ item.title # {}
           [] f.key = "text" /\ item.type = "Note" -> Usable(f) /\ item.title # {}
           [] f.key = "editor" /\ item.type = "Note" -> Usable(f) /\ item.editor # {}
           [] f.key = "trash" /\ item.type = "Note" -> f.comparison \in {"==", "!="}
           [] f.key = "tagtitle" /\ item.type = "Note" ->
                any /\ Usable(f) /\ f.comparison \in {"~", "=="} /\ f.value # {}
           [] f.key = "taguuid" /\ item.type = "Note" ->
                /\ f.comparison = "=="
                /\ \A s, t \in ElementsOf(tags) : s.uuid = f.value /\ t.uuid = f.value => s = t
           [] f.key \in {"duplicateof", "deleted"} -> item.type = "Note"
           [] f.key = "active" -> item.type = "Component"
           [] f.key = "uuid" -> TRUE
           [] OTHER -> ~any /\ f.key = "type"

Wanted(ask, item, tags) ==
    LET on == {f \in FiltersOf(ask) : Applies(f, item)}
    IN  /\ on # {}
        /\ IF ask.any THEN \E f \in on : Says(f, item, tags) ELSE \A f \in on : Says(f, item, tags)

\* Filter keeps an item when it is of a type some filter is for and one of
\* those filters (MatchAny) or each of them holds, whatever the other filters
\* of the list are and in whichever order they come (src/items/filter.go:45,
\* the early returns of the apply...Filters functions).
FilterMeansWhatItSays ==
    \A ask \in Asks :
       \A item \in ElementsOf(items) :
          (\A f \in FiltersOf(ask) : Regular(f, item, TagsOf(items), ask.any))
             => (item \in ElementsOf(Kept(items, ask)) <=> Wanted(ask, item, TagsOf(items)))

=============================================================================
