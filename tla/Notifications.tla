--------------------------- MODULE Notifications ---------------------------
(***************************************************************************)
(* What the server tells its users: a resolution to the participants and   *)
(* the winners of the market, a deposit to its owner, news to all. Each    *)
(* round reads its users with their settings once and sends later, user by *)
(* user, while settings change and prizes are redeemed.                    *)
(*                                                                         *)
(* The operator named ...Fault is a plausible mistake in the one it        *)
(* precedes; no specification uses it.                                     *)
(***************************************************************************)
EXTENDS Integers, FiniteSets

CONSTANTS
    Users,
    MaxRounds,      \* bound: rounds of notices, changes of settings, redemptions
    MaxHeld         \* winning tokens a user holds at the start, at most

VARIABLES
    settings,   \* user_notification_settings: the switches that are on
    held,       \* winning tokens of each user, not redeemed
    round,      \* the notices being sent: their kind, and the users as read
    sent,       \* notices the messaging service has accepted
    stored,     \* notification rows
    mailed,     \* emails
    changed,    \* users whose settings changed during the round
    rounds      \* rounds, changes and redemptions so far

vars == <<settings, held, round, sent, stored, mailed, changed, rounds>>
outbox == <<sent, stored, mailed>>

(* The switch of each kind of notice; "push" switches all of them. "news"   *)
(* stands also for the markets that are new or close soon: all three ask    *)
(* the database for the users who have both switches on.                    *)
Kinds == {"resolved", "won", "deposit", "news", "forcedNews"}
Switches == {"push", "email"} \union (Kinds \ {"forcedNews"})

(* seen: the settings the round has read; prize: of a winner, once known.   *)
Letter == [to : Users, seen : SUBSET Switches, prize : Nat, ready : BOOLEAN]
Notice == [kind : Kinds, to : Users, prize : Nat]
NoRound == [kind |-> "none", letters |-> {}]

TypeOK ==
    /\ settings \in [Users -> SUBSET Switches] /\ held \in [Users -> Nat]
    /\ round.kind \in Kinds \union {"none"} /\ round.letters \subseteq Letter
    /\ sent \subseteq Notice /\ stored \subseteq sent /\ mailed \subseteq sent
    /\ changed \subseteq Users /\ rounds \in 0 .. MaxRounds

(***************************************************************************)
(* Rounds of notices.                                                      *)
(***************************************************************************)
WantsFault(on, kind) == kind \in on

(* pushPredictionMarketIsResolvedToParticipants, pushUserHasWonABet, the    *)
(* deposit and the news look at the switch of their kind and at "push".     *)
Wants(on, kind) == kind = "forcedNews" \/ ({"push", kind} \subseteq on)

(* Winners are sent word once their balance is known; the others at once.   *)
BeginRound(kind, to) ==
    /\ round = NoRound /\ rounds < MaxRounds
    /\ rounds' = rounds + 1
    /\ round' = [kind |-> kind,
                 letters |-> {[to |-> u, seen |-> settings[u], prize |-> 0,
                               ready |-> kind # "won"] :
                                   u \in {v \in to : Wants(settings[v], kind)}}]
    /\ changed' = {}
    /\ UNCHANGED <<settings, held, outbox>>

(* The only true outcome has all of the ratio: the prize is the balance.    *)
Prize(u) == held[u]

ReadBalance(l) ==
    /\ l \in round.letters /\ ~l.ready
    /\ LET rest == round.letters \ {l} IN
       round' = IF Prize(l.to) > 0
                THEN [round EXCEPT !.letters =
                        rest \union {[l EXCEPT !.prize = Prize(l.to), !.ready = TRUE]}]
                ELSE IF rest = {} THEN NoRound ELSE [round EXCEPT !.letters = rest]
    /\ UNCHANGED <<settings, held, outbox, changed, rounds>>

(* push(): the message first, then the row and the email together, each of  *)
(* which may fail; nothing is kept of a message that was not accepted.      *)
Push(l) ==
    /\ l \in round.letters /\ l.ready
    /\ LET n == [kind |-> round.kind, to |-> l.to, prize |-> l.prize]
           rest == round.letters \ {l}
       IN  /\ \/ UNCHANGED outbox
              \/ /\ sent' = sent \union {n}
                 /\ stored' \in {stored, stored \union {n}}
                 /\ mailed' \in {mailed} \union
                        (IF "email" \in l.seen THEN {mailed \union {n}} ELSE {})
           /\ round' = IF rest = {} THEN NoRound ELSE [round EXCEPT !.letters = rest]
    /\ UNCHANGED <<settings, held, changed, rounds>>

(* A round nobody wants is over when it begins.                             *)
EndEmpty ==
    /\ round # NoRound /\ round.letters = {}
    /\ round' = NoRound
    /\ UNCHANGED <<settings, held, outbox, changed, rounds>>

(* updateUserNotificationSettings and subscribe.                            *)
Change(u, s) ==
    /\ rounds < MaxRounds /\ rounds' = rounds + 1
    /\ settings' = [settings EXCEPT ![u] = IF s \in @ THEN @ \ {s} ELSE @ \union {s}]
    /\ changed' = changed \union {u}
    /\ UNCHANGED <<held, round, outbox>>

Redeem(u) ==
    /\ rounds < MaxRounds /\ rounds' = rounds + 1
    /\ held[u] > 0 /\ held' = [held EXCEPT ![u] = 0]
    /\ UNCHANGED <<settings, round, outbox, changed>>

Init ==
    /\ settings \in [Users -> {Switches, Switches \ {"email"}, Switches \ {"push"},
                               {"push"}}]
    /\ held \in [Users -> 0 .. MaxHeld]
    /\ round = NoRound /\ changed = {} /\ rounds = 0
    /\ sent = {} /\ stored = {} /\ mailed = {}

Next ==
    \/ EndEmpty
    \/ \E kind \in {"resolved", "won", "news", "forcedNews"} : BeginRound(kind, Users)
    \/ \E u \in Users : BeginRound("deposit", {u})
    \/ \E l \in round.letters : ReadBalance(l) \/ Push(l)
    \/ \E u \in Users, s \in {"push", "won"} : Change(u, s)
    \/ \E u \in Users : Redeem(u)

Spec == Init /\ [][Next]_vars

(***************************************************************************)
(* Properties.                                                             *)
(***************************************************************************)
(* "If this option is disabled all notification settings will be overridden": *)
(* a user who has switched web push off gets no notice, whatever the order   *)
(* of the rounds and the changes, but for those of a round that had read the *)
(* user before the change, and for news sent by force.                       *)
OnlyWanted == [][\A n \in sent' \ sent :
    n.kind # "forcedNews" => "push" \in settings[n.to] \/ n.to \in changed]_vars
=============================================================================
