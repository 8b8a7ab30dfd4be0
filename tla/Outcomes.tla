------------------------------ MODULE Outcomes ------------------------------
(***************************************************************************)
(* The outcomes of markets: rows of titles and icons that the markets      *)
(* share, the icons uploaded for a token, and the collections of outcomes  *)
(* a new market is given.                                                  *)
(*                                                                         *)
(* Titles that ILike takes for one are one value; an index of an outcome   *)
(* starts at 0 as in the code, where a sequence starts at 1. Operators     *)
(* named ...Fault are plausible mistakes in the operator they precede; no  *)
(* specification uses them.                                                *)
(***************************************************************************)
EXTENDS Naturals, Sequences

CONSTANTS
    Markets,            \* markets that will be created
    Sizes,              \* numbers of outcomes a market may have
    Titles,             \* titles of outcomes
    Files               \* names of objects, unique for each upload

VARIABLES
    outcomes,       \* rows of prediction_outcome: title and icon
    tokens,         \* tokens[m]: the outcome row of each token of market m
    collections,    \* collections[m][k]: possible outcomes, by their index in m
    stored,         \* icons in the storage
    call            \* call[m]: the request that creates m, or Idle

vars == <<outcomes, tokens, collections, stored, call>>

None == "none"
Idle == [step |-> "idle"]

(* ------------------------------- outcomes ------------------------------ *)

Rows == DOMAIN outcomes

(* Without an icon any row with the title will do, whatever its icon.       *)
Fitting(title, icon) ==
    {row \in Rows : outcomes[row].title = title /\ icon \in {None, outcomes[row].icon}}

(* The outcomes of a new market are looked up at once, in any order with    *)
(* those of another; a title that is not found gets a row.                  *)
CreateMarket(m) ==
    /\ call[m] = Idle /\ tokens[m] = <<>>
    /\ \E n \in Sizes : \E titles \in [1 .. n -> Titles] :
         /\ \A i, j \in DOMAIN titles : titles[i] = titles[j] => i = j
         /\ call' = [call EXCEPT ![m] = [step |-> "outcomes", titles |-> titles,
                                        rows |-> [i \in DOMAIN titles |-> 0], missing |-> {}]]
    /\ UNCHANGED <<outcomes, tokens, collections, stored>>

FindOutcome(m) ==
    /\ call[m].step = "outcomes"
    /\ \E i \in DOMAIN call[m].titles \ call[m].missing :
         /\ call[m].rows[i] = 0
         /\ LET fitting == Fitting(call[m].titles[i], None) IN
            IF fitting = {}
            THEN call' = [call EXCEPT ![m].missing = @ \union {i}]
            ELSE \E row \in fitting : call' = [call EXCEPT ![m].rows[i] = row]
    /\ UNCHANGED <<outcomes, tokens, collections, stored>>

SaveOutcome(m) ==
    /\ call[m].step = "outcomes"
    /\ \E i \in call[m].missing :
         /\ outcomes' = Append(outcomes, [title |-> call[m].titles[i], icon |-> None])
         /\ call' = [call EXCEPT ![m].missing = @ \ {i}, ![m].rows[i] = Len(outcomes')]
    /\ UNCHANGED <<tokens, collections, stored>>

(* The inner loop: outcomeSet, the outcomes before first, with each of the  *)
(* outcomes from first on.                                                  *)
SetsFromFault(first, n) == [j \in 1 .. n - first |-> (0 .. first) \union {first + j - 1}]
SetsFrom(first, n) == [j \in 1 .. n - first |-> (0 .. first - 1) \union {first + j - 1}]

(* createAllCollections puts the sets one after the other behind the empty  *)
(* one; what is left of the 2 ^ n collections stays undefined.              *)
Possible(n) ==
    LET sets[i \in 0 .. n] == IF i = n THEN <<>> ELSE SetsFrom(i, n) \o sets[i + 1]
    IN  [k \in 0 .. 2 ^ n - 1 |-> IF k \in DOMAIN sets[0] THEN sets[0][k] ELSE {}]

Deploy(m) ==
    /\ call[m].step = "outcomes" /\ \A i \in DOMAIN call[m].rows : call[m].rows[i] # 0
    /\ tokens' = [tokens EXCEPT ![m] = call[m].rows]
    /\ collections' = [collections EXCEPT ![m] = Possible(Len(tokens'[m]))]
    /\ call' = [call EXCEPT ![m] = Idle]
    /\ UNCHANGED <<outcomes, stored>>

(* The row of the outcome may be shared: the token is given another one.    *)
ShowFault(row, file) == <<[outcomes EXCEPT ![row].icon = file], row>>
Show(row, file) ==
    <<Append(outcomes, [title |-> outcomes[row].title, icon |-> file]), Len(outcomes) + 1>>

UploadOutcomeIcon(m, i, file) ==
    /\ file \notin stored
    /\ i \in DOMAIN tokens[m]
    /\ stored' = stored \union {file}
    /\ LET shown == Show(tokens[m][i], file) IN
       /\ outcomes' = shown[1]
       /\ tokens' = [tokens EXCEPT ![m][i] = shown[2]]
    /\ UNCHANGED <<collections, call>>

Crash ==
    /\ \E m \in Markets : call[m] # Idle
    /\ call' = [m \in Markets |-> Idle]
    /\ UNCHANGED <<outcomes, tokens, collections, stored>>

Init ==
    /\ outcomes = <<>> /\ stored = {}
    /\ tokens = [m \in Markets |-> <<>>]
    /\ collections = [m \in Markets |-> <<>>]
    /\ call = [m \in Markets |-> Idle]

Next ==
    \/ \E m \in Markets :
         \/ CreateMarket(m) \/ FindOutcome(m) \/ SaveOutcome(m) \/ Deploy(m)
         \/ \E i \in DOMAIN tokens[m], file \in Files : UploadOutcomeIcon(m, i, file)
    \/ Crash

Spec == Init /\ [][Next]_vars

(* ------------------------------ properties ----------------------------- *)

(* Markets share the rows of outcomes; still, no step changes the icon of   *)
(* more than one of the tokens there are. A market that is made later may   *)
(* find the row of an uploaded icon by its title, and show it too.          *)
IconsAreOwn ==
    [][\A m, other \in Markets : \A i \in DOMAIN tokens[m], j \in DOMAIN tokens[other] :
         (/\ outcomes'[tokens'[m][i]].icon # outcomes[tokens[m][i]].icon
          /\ outcomes'[tokens'[other][j]].icon # outcomes[tokens[other][j]].icon)
         => m = other /\ i = j]_vars

(* "indexSetDecimal= 2 is the decimal value of bit-array 010 indicating an  *)
(* occasion which outcome B did happen, but A & C didn't": the possible     *)
(* outcomes of a collection are those whose bits are set in its index.      *)
HoldsBits(m, k) ==
    collections[m][k] = {i \in 0 .. Len(tokens[m]) - 1 : (k \div 2 ^ i) % 2 = 1}
CollectionsFollowBits ==
    \A m \in Markets : \A k \in DOMAIN collections[m] : HoldsBits(m, k)

(* It is so for markets of two outcomes.                                    *)
PairsFollowBits ==
    \A m \in Markets : Len(tokens[m]) = 2 => \A k \in DOMAIN collections[m] : HoldsBits(m, k)

=============================================================================
