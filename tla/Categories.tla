----------------------------- MODULE Categories -----------------------------
(***************************************************************************)
(* The tree of market categories: rows, and requests that are cut where    *)
(* the code awaits between reading a row and writing it.                   *)
(*                                                                         *)
(* Names that ILike takes for one are one value. The texts of a request    *)
(* that are stored as they come, description and icon, are left out; the   *)
(* upload of an icon is a request that saves a row it has loaded, too.     *)
(* Operators named ...Fault are plausible mistakes in the operator they    *)
(* precede; no specification uses them.                                    *)
(***************************************************************************)
EXTENDS Naturals

CONSTANTS
    Requests,
    Names,              \* names of categories
    MaxCategories       \* bound: ids of categories

VARIABLES
    categories,     \* categories[id]: the row, Unused or Gone
    call,           \* call[r]: the request, or Idle
    raced           \* history: did two requests overlap?

vars == <<categories, call, raced>>

None == "none"
Empty == ""
Unused == [name |-> None, parent |-> 0]
Gone == [Unused EXCEPT !.name = "gone"]
Ids == 1 .. MaxCategories
Present == {id \in Ids : categories[id] \notin {Unused, Gone}}
Idle == [step |-> "idle"]

Begin(r, record) == call[r] = Idle /\ call' = [call EXCEPT ![r] = record]
Done(r) == call' = [call EXCEPT ![r] = Idle]
Overlap(r) == raced' = (raced \/ \E other \in Requests \ {r} : call[other] # Idle)

(* ------------------------------ categories ----------------------------- *)

TakenFault(name) == \E id \in Present : categories[id].name = name /\ categories[id].parent = 0
(* Also by the category itself, when its own name is sent along.            *)
Taken(name) == \E id \in Present : categories[id].name = name

AddCategory(r) ==
    /\ \E name \in Names, parent \in Present \union {0} :
         ~Taken(name) /\ Begin(r, [step |-> "add", name |-> name, parent |-> parent])
    /\ Overlap(r)
    /\ UNCHANGED categories

SaveCategory(r) ==
    /\ call[r].step = "add"
    /\ IF \E id \in Ids : categories[id] = Unused /\ call[r].parent \in Present \union {0}
       THEN LET id == CHOOSE i \in Ids : categories[i] = Unused IN
            categories' = [categories EXCEPT ![id] =
                             [name |-> call[r].name, parent |-> call[r].parent]]
       ELSE UNCHANGED categories
    /\ Done(r)
    /\ UNCHANGED raced

(* The row that save may leave: parentId and parent are one column, and the *)
(* code sets them to contradict each other: a parent asked for is cleared,  *)
(* none asked for is looked up, which finds any row.                        *)
Reparented(row, parent) ==
    {[row EXCEPT !.parent = chosen] :
       chosen \in IF parent = 0 THEN Present \union {0} ELSE {parent, 0}}

(* An empty name may be sent, and is not looked for.                        *)
UpdateCategory(r) ==
    /\ \E id \in Present, name \in Names \union {None, Empty}, parent \in Ids \union {0},
          moved \in BOOLEAN :
         /\ name \in Names => ~Taken(name)
         /\ \E row \in IF moved THEN Reparented(categories[id], parent) ELSE {categories[id]} :
              Begin(r, [step |-> "update", id |-> id,
                        row |-> IF name = None THEN row ELSE [row EXCEPT !.name = name]])
    /\ Overlap(r)
    /\ UNCHANGED categories

(* After its object was put in the storage, an upload is an update that     *)
(* sends neither a name nor a parent.                                       *)
UploadCategoryIcon(r) ==
    /\ \E id \in Present : Begin(r, [step |-> "update", id |-> id, row |-> categories[id]])
    /\ Overlap(r)
    /\ UNCHANGED categories

(* The whole loaded row is saved; a row that was deleted is inserted anew,  *)
(* an unknown parent is refused by the database.                            *)
SaveUpdate(r) ==
    /\ call[r].step = "update"
    /\ categories' = IF call[r].row.parent \in Present \union {0, call[r].id}
                     THEN [categories EXCEPT ![call[r].id] = call[r].row] ELSE categories
    /\ Done(r)
    /\ UNCHANGED raced

(* ON DELETE SET NULL: the children become primary.                         *)
DeleteCategory(id) ==
    /\ id \in Present
    /\ categories' = [i \in Ids |->
                        IF i = id THEN Gone
                        ELSE IF categories[i].parent = id
                             THEN [categories[i] EXCEPT !.parent = 0] ELSE categories[i]]
    /\ UNCHANGED <<call, raced>>

Crash ==
    /\ \E r \in Requests : call[r] # Idle
    /\ call' = [r \in Requests |-> Idle]
    /\ UNCHANGED <<categories, raced>>

Init ==
    /\ categories = [id \in Ids |-> Unused]
    /\ raced = FALSE
    /\ call = [r \in Requests |-> Idle]

Next ==
    \/ \E r \in Requests :
         \/ AddCategory(r) \/ SaveCategory(r) \/ UpdateCategory(r) \/ SaveUpdate(r)
         \/ UploadCategoryIcon(r)
    \/ \E id \in Ids : DeleteCategory(id)
    \/ Crash

Spec == Init /\ [][Next]_vars

(* ------------------------------ properties ----------------------------- *)

(* Two categories share a name only if requests overlapped: the name is     *)
(* looked for first, the row saved later. The empty name is not looked for. *)
NamesDiffer ==
    raced \/ \A id, other \in Present :
        categories[id].name = categories[other].name => id = other \/ categories[id].name = Empty

=============================================================================
