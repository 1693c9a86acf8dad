-------------------------------- MODULE Page --------------------------------
(***************************************************************************)
(* pkg/page/page_sort.go: a page request and what it makes of the          *)
(* parameters a client sends.  A field name is a sequence of characters;   *)
(* the list after "sort" is taken as split at its commas.                  *)
(***************************************************************************)
EXTENDS Integers, Sequences, SequencesExt, Lists

\* checkField: 0 and missing become 1 and 10; nothing else is corrected.
CheckField(req) ==
    [index |-> IF req.index = 0 THEN 1 ELSE req.index,
     size |-> IF req.size = 0 THEN 10 ELSE req.size, sort |-> req.sort, filter |-> req.filter]

Reserved == {"page_index", "page_size", "sort"}

\* NewPageFromRequest: the first value of every other parameter is a filter.
NewPageFromRequest(form) ==
    CheckField([index |-> form.index, size |-> form.size, sort |-> form.sort,
                filter |-> {<<k, form.rest[k][1]>> :
                               k \in {j \in DOMAIN form.rest \ Reserved : form.rest[j] # <<>>}}])

\* NewPageFromRequestJSON: objects, arrays and null are left out.
NewPageFromRequestJSON(body) ==
    IF ~body.valid THEN [error |-> "json format error"]
    ELSE CheckField([index |-> body.index, size |-> body.size, sort |-> body.sort,
                filter |-> {<<k, body.rest[k]>> :
                               k \in {j \in DOMAIN body.rest \ Reserved :
                                         body.rest[j] \notin {"object", "array", "null"}}}])

\* Mutant of Offset: pages counted from 0.
OffsetFromZero(pageNo, pageSize) == pageNo * pageSize

Offset(pageNo, pageSize) == (pageNo - 1) * pageSize
GetLimitAndOffset(req) == [limit |-> req.size, offset |-> Offset(req.index, req.size)]

-----------------------------------------------------------------------------
(* Sort.                                                                   *)

Space == " "

\* strings.TrimSpace.
TrimSpace(v) ==
    LET ink == {i \in DOMAIN v : v[i] # Space}
    IN  IF ink = {} THEN <<>>
        ELSE SubSeq(v, CHOOSE i \in ink : \A j \in ink : i <= j,
                       CHOOSE i \in ink : \A j \in ink : i >= j)

Without(v, ch) == Among(v, ToSet(v) \ {ch})
EndsIn(v, ch) == v # <<>> /\ Last(v) = ch

ContainString(ss, v) == \E e \in ss : TrimSpace(e) = TrimSpace(v)

\* One element: a last "-" asks for descending order, then a last "+" for
\* ascending; either is removed wherever it stands in the name.
Element(v) ==
    LET trimmed == TrimSpace(v)
        desc == EndsIn(trimmed, "-")
        plain == IF desc THEN Without(trimmed, "-") ELSE trimmed
    IN  [field |-> IF EndsIn(plain, "+") THEN Without(plain, "+") ELSE plain,
         desc |-> desc, empty |-> trimmed = <<>>]

Clause(kept) == [i \in DOMAIN kept |->
                    [field |-> Element(kept[i]).field, desc |-> Element(kept[i]).desc]]

\* Mutant of Sort: the name is looked up as it was sent, and used as it is.
SortUnchecked(sortBy, allowed) == Clause(Among(sortBy, {v \in ToSet(sortBy) : ~Element(v).empty}))

\* The ORDER BY clause: elements that are not empty and whose field is allowed.
Sort(sortBy, allowed) ==
    Clause(Among(sortBy, {v \in ToSet(sortBy) :
                             ~Element(v).empty /\ ContainString(allowed, Element(v).field)}))
=============================================================================
