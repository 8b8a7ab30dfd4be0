---------------------------- MODULE FundsProofs -----------------------------
(***************************************************************************)
(* Proofs about what calls of contracts, collections of fees, the wallets,  *)
(* the faucet and the charges do with transactions and money, for any set of*)
(* users, requests and addresses. The services share no variable, and a step*)
(* of Services is a step of one of them: each invariant is proved of the steps*)
(* of one service, and carried over to Services by the first lemma of its   *)
(* part.                                                                    *)
(***************************************************************************)
EXTENDS Services, SumTheorems, FiniteSetTheorems, SequenceTheorems, TLAPS

(***************************************************************************)
(* The calls of contracts, and the gas they are given.                     *)
(***************************************************************************)

(* A step of the system is one of the calls, or leaves them alone.          *)
LEMMA CallsStep == [Next]_vars => [K!Next]_(K!vars)
  BY DEF Next, Others, callsVars, vars, K!vars

CallIds == Requests \union {Nobody}

(* What is known of a call k when each account has sent n transactions.      *)
CallOK(k, n) ==
    /\ k \in K!Call
    /\ k.landed <= 1
    /\ k.pc \in {"done", "wait"} => k.landed = 1 /\ k.why = "none"
    /\ k.pc \notin {"done", "wait", "failed"} => k.landed = 0 /\ k.why = "none"
    /\ k.why \in {"nonce", "gift", "funds"} => k.landed = 0
    /\ k.pc = "send" => k.nonce <= n[k.by] /\ (k.again => k.nonce >= 1)
    /\ k.again => n[k.by] >= 1
    /\ k.why = "nonce" /\ ~k.strange => n[k.by] >= 2

CallsShape ==
    /\ transactions \in [K!Senders -> Nat]
    /\ gas \in [{"user"} -> Nat]
    /\ gifts \subseteq CallIds \X Nat
    /\ DOMAIN call = CallIds
    /\ call = [c \in CallIds |-> call[c]]

CallsInv == CallsShape /\ \A c \in CallIds : CallOK(call[c], transactions)

(* No call has sent anything at the start.                                  *)
LEMMA CallsStart == Init => CallsInv
<1> SUFFICES ASSUME K!Init
             PROVE  CallsInv
  BY DEF Init
<1>1. K!NoCall \in K!Call
  BY DEF K!NoCall, K!Call, K!Senders, K!Operator
<1>2. K!NoCall.landed = 0 /\ K!NoCall.pc = "idle" /\ K!NoCall.why = "none" /\ K!NoCall.again = FALSE
  BY DEF K!NoCall
<1>3. transactions \in [K!Senders -> Nat] /\ gas \in [{"user"} -> Nat] /\ gifts = {}
      /\ call = [c \in CallIds |-> K!NoCall]
  BY DEF K!Init, CallIds
<1>4. ASSUME NEW c \in CallIds
      PROVE  CallOK(call[c], transactions)
  <2>1. call[c] = K!NoCall
    BY <1>3
  <2> QED
    BY <1>1, <1>2, <2>1 DEF CallOK
<1> QED
  BY <1>3, <1>4 DEF CallsInv, CallsShape

(* A transaction more of some account changes nothing for a call.           *)
LEMMA MoreSent ==
    ASSUME NEW k, NEW n \in [K!Senders -> Nat], NEW m \in [K!Senders -> Nat],
           \A a \in K!Senders : n[a] <= m[a], CallOK(k, n)
    PROVE  CallOK(k, m)
<1>1. k.by \in K!Senders /\ k.nonce \in Nat
  BY DEF CallOK, K!Call
<1>2. n[k.by] <= m[k.by] /\ n[k.by] \in Nat /\ m[k.by] \in Nat
  BY <1>1
<1> QED
  BY <1>1, <1>2 DEF CallOK

(* One call changes, to something that is well formed again.                *)
LEMMA OneCall ==
    ASSUME CallsInv, NEW c \in CallIds, NEW k,
           call' = [call EXCEPT ![c] = k],
           transactions' \in [K!Senders -> Nat],
           \A a \in K!Senders : transactions[a] <= transactions'[a],
           gas' \in [{"user"} -> Nat], gifts' \subseteq CallIds \X Nat,
           CallOK(k, transactions')
    PROVE  CallsInv'
<1>1. CallsShape'
  BY DEF CallsInv, CallsShape
<1>2. ASSUME NEW d \in CallIds
      PROVE  CallOK(call'[d], transactions')
  <2>1. CASE d = c
    BY <2>1 DEF CallsInv, CallsShape
  <2>2. CASE d # c
    <3>1. call'[d] = call[d]
      BY <2>2 DEF CallsInv, CallsShape
    <3> QED
      BY <3>1, MoreSent DEF CallsInv, CallsShape
  <2> QED
    BY <2>1, <2>2
<1> QED
  BY <1>1, <1>2 DEF CallsInv

(* No account has sent fewer transactions after the step of a call.         *)
LEMMA SentGrows ==
    ASSUME CallsInv, NEW c \in CallIds, NEW a \in K!Senders,
           transactions' = [transactions EXCEPT ![a] = @ + 1]
    PROVE  /\ transactions' \in [K!Senders -> Nat]
           /\ \A b \in K!Senders : transactions[b] <= transactions'[b]
  BY DEF CallsInv, CallsShape

(* Each step of a call keeps what every call knows of its transactions.     *)
LEMMA CallsKept == CallsInv /\ [K!Next]_(K!vars) => CallsInv'
<1> SUFFICES ASSUME CallsInv, [K!Next]_(K!vars)
             PROVE  CallsInv'
  OBVIOUS
<1>1. ASSUME NEW c \in CallIds
      PROVE  call[c] \in K!Call /\ CallOK(call[c], transactions)
  BY DEF CallsInv, CallOK
<1>2. transactions \in [K!Senders -> Nat] /\ gas \in [{"user"} -> Nat]
      /\ gifts \subseteq CallIds \X Nat
      /\ \A a \in K!Senders : transactions[a] <= transactions[a]
  BY DEF CallsInv, CallsShape
<1>3. DOMAIN call = CallIds /\ call = [c \in CallIds |-> call[c]]
  BY DEF CallsInv, CallsShape
<1>4. ASSUME NEW c \in CallIds, NEW by \in K!Senders, NEW quick \in BOOLEAN,
             K!Begin(c, by, quick)
      PROVE  CallsInv'
  <2> DEFINE k == [K!NoCall EXCEPT !.pc = K!Start(by), !.by = by, !.quick = quick]
  <2>1. k \in K!Call /\ k.landed = 0 /\ k.pc \in {"number", "gas"} /\ k.why = "none" /\ ~k.again
    BY DEF K!NoCall, K!Call, K!Start, K!Senders, K!Operator
  <2>2. call' = [call EXCEPT ![c] = k] /\ UNCHANGED <<transactions, gas, gifts>>
    BY <1>4 DEF K!Begin
  <2> HIDE DEF k
  <2>3. CallOK(k, transactions')
    BY <2>1, <2>2 DEF CallOK
  <2> QED
    BY <1>2, <2>2, <2>3, OneCall
<1>5. ASSUME NEW c \in CallIds, K!EstimateGas(c)
      PROVE  CallsInv'
  <2> DEFINE pc == IF K!Scarce(call[c].by) THEN "number gift" ELSE "number"
             k == [call[c] EXCEPT !.pc = pc]
  <2>1. call' = [call EXCEPT ![c] = k] /\ UNCHANGED <<transactions, gas, gifts>>
        /\ call[c].pc = "gas"
    BY <1>5 DEF K!EstimateGas, K!Goto, K!At
  <2>2. pc \in {"number gift", "number"}
    OBVIOUS
  <2> HIDE DEF pc
  <2>3. k \in K!Call
    BY <1>1, <2>2 DEF K!Call
  <2>4. CallOK(k, transactions')
    BY <1>1, <2>1, <2>2, <2>3 DEF CallOK, K!Call
  <2> QED
    BY <1>2, <2>1, <2>4, OneCall
<1>6. ASSUME NEW c \in CallIds, K!ReadNumber(c)
      PROVE  CallsInv'
  <2> DEFINE by == IF K!At(c, "number gift") THEN K!Operator ELSE call[c].by
             pc == IF K!At(c, "number gift") THEN "gift" ELSE "send"
             k == [call[c] EXCEPT !.nonce = transactions[by], !.pc = pc]
  <2>1. call' = [call EXCEPT ![c] = k] /\ UNCHANGED <<transactions, gas, gifts>>
        /\ call[c].pc \in {"number gift", "number"}
    BY <1>6 DEF K!ReadNumber
  <2>2. pc \in {"gift", "send"} /\ by \in K!Senders /\ (pc = "send" => by = call[c].by)
    BY <1>1 DEF K!Call, K!Senders
  <2>3. transactions[by] \in Nat
    BY <1>2, <2>2
  <2> HIDE DEF pc, by
  <2>4. k \in K!Call /\ k.pc = pc /\ k.nonce = transactions[by] /\ k.landed = call[c].landed
        /\ k.why = call[c].why /\ k.by = call[c].by /\ k.again = call[c].again
    BY <1>1, <2>2, <2>3 DEF K!Call
  <2> HIDE DEF k
  <2>5. CallOK(k, transactions')
    <3>1. k.landed = 0 /\ k.why = "none"
      BY <1>1, <2>1, <2>4 DEF CallOK
    <3>2. k.again => transactions[k.by] >= 1
      BY <1>1, <2>4 DEF CallOK
    <3>3. k.pc = "send" => k.nonce = transactions[k.by]
      BY <2>2, <2>4
    <3>6. k \in K!Call /\ k.landed <= 1
      BY <2>4, <3>1
    <3>4. k.nonce \in Nat /\ k.pc \in {"gift", "send"}
      BY <2>2, <2>3, <2>4
    <3>5. k.pc = "send" => k.nonce <= transactions[k.by] /\ (k.again => k.nonce >= 1)
      BY <3>2, <3>3, <3>4
    <3> QED
      BY <2>1, <3>1, <3>2, <3>4, <3>5, <3>6 DEF CallOK
  <2> QED
    BY <1>2, <2>1, <2>5, OneCall
<1>7. ASSUME NEW c \in CallIds, K!GiveGas(c)
      PROVE  CallsInv'
  <2> DEFINE pc == IF call[c].quick THEN "number" ELSE "given"
             k == [call[c] EXCEPT !.given = @ + 1, !.nonce = 0, !.pc = pc]
             j == [call[c] EXCEPT !.pc = "failed", !.nonce = 0, !.why = "gift"]
  <2>1. call[c].pc = "gift" /\ gas' = gas
    BY <1>7 DEF K!GiveGas, K!At
  <2>2. pc \in {"number", "given"}
    OBVIOUS
  <2> HIDE DEF pc
  <2>3. CASE call[c].nonce = transactions[K!Operator]
    <3>1. call' = [call EXCEPT ![c] = k] /\ gifts' = gifts \union {<<c, call[c].given>>}
          /\ transactions' = [transactions EXCEPT ![K!Operator] = @ + 1]
      BY <1>7, <2>3 DEF K!GiveGas, pc
    <3>2. K!Operator \in K!Senders
      BY DEF K!Senders
    <3>3. k \in K!Call /\ k.pc = pc /\ k.landed = 0 /\ k.why = "none" /\ k.by = call[c].by
          /\ k.again = call[c].again
      <4>1. call[c].landed = 0 /\ call[c].why = "none"
        BY <1>1, <2>1 DEF CallOK
      <4>4. call[c].given \in Nat
        BY <1>1 DEF K!Call
      <4>2. call[c].given + 1 \in Nat
        BY <4>4
      <4>3. k \in K!Call
        BY <1>1, <2>2, <4>2 DEF K!Call
      <4>5. call[c] \in K!Call
        BY <1>1
      <4>6. k.pc = pc
        BY <4>5 DEF K!Call
      <4>7. k.landed = call[c].landed /\ k.why = call[c].why
        BY <4>5 DEF K!Call
      <4>8. k.by = call[c].by /\ k.again = call[c].again
        BY <4>5 DEF K!Call
      <4> HIDE DEF k
      <4> QED
        BY <4>1, <4>3, <4>6, <4>7, <4>8
    <3>4. gifts' \subseteq CallIds \X Nat
      <4>1. <<c, call[c].given>> \in CallIds \X Nat
        BY <1>1 DEF K!Call
      <4> QED
        BY <1>2, <3>1, <4>1
    <3>5. /\ transactions' \in [K!Senders -> Nat]
          /\ \A b \in K!Senders : transactions[b] <= transactions'[b]
      BY <3>1, <3>2, SentGrows
    <3>6. CallOK(call[c], transactions')
      BY <1>1, <1>2, <3>5, MoreSent
    <3> HIDE DEF k
    <3>7. CallOK(k, transactions')
      BY <2>2, <3>3, <3>6 DEF CallOK
    <3> QED
      BY <1>2, <2>1, <3>1, <3>4, <3>5, <3>7, OneCall
  <2>4. CASE call[c].nonce # transactions[K!Operator]
    <3>1. call' = [call EXCEPT ![c] = j] /\ UNCHANGED <<transactions, gifts>>
      BY <1>7, <2>4 DEF K!GiveGas, K!Fail
    <3>2. j \in K!Call /\ j.pc = "failed" /\ j.landed = 0 /\ j.why = "gift" /\ j.by = call[c].by
          /\ j.again = call[c].again
      BY <1>1, <2>1 DEF K!Call, CallOK
    <3> HIDE DEF j
    <3>3. CallOK(j, transactions')
      BY <1>1, <3>1, <3>2 DEF CallOK
    <3> QED
      BY <1>2, <2>1, <3>1, <3>3, OneCall
  <2> QED
    BY <2>3, <2>4
<1>8. ASSUME NEW c \in CallIds, K!AwaitGift(c)
      PROVE  CallsInv'
  <2> DEFINE k == [call[c] EXCEPT !.pc = "number"]
  <2>1. call' = [call EXCEPT ![c] = k] /\ UNCHANGED <<transactions, gas, gifts>>
        /\ call[c].pc = "given"
    BY <1>8 DEF K!AwaitGift, K!At, K!Goto
  <2>2. CallOK(k, transactions')
    BY <1>1, <2>1 DEF CallOK, K!Call
  <2> QED
    BY <1>2, <2>1, <2>2, OneCall
<1>9. ASSUME NEW c \in CallIds, K!AwaitReceipt(c)
      PROVE  CallsInv'
  <2> DEFINE k == [call[c] EXCEPT !.pc = "done"]
  <2>1. call' = [call EXCEPT ![c] = k] /\ UNCHANGED <<transactions, gas, gifts>>
        /\ call[c].pc = "wait"
    BY <1>9 DEF K!AwaitReceipt, K!At, K!Goto
  <2>2. CallOK(k, transactions')
    BY <1>1, <2>1 DEF CallOK, K!Call
  <2> QED
    BY <1>2, <2>1, <2>2, OneCall
<1>10. ASSUME NEW c \in CallIds, K!Accepted(c), K!Accept(c)
       PROVE  /\ transactions' \in [K!Senders -> Nat]
              /\ \A b \in K!Senders : transactions[b] <= transactions'[b]
              /\ gas' \in [{"user"} -> Nat]
  <2>1. call[c].by \in K!Senders
    BY <1>1 DEF K!Call
  <2>2. /\ transactions' \in [K!Senders -> Nat]
        /\ \A b \in K!Senders : transactions[b] <= transactions'[b]
    BY <1>10, <2>1, SentGrows DEF K!Accept
  <2>3. CASE call[c].by = K!Operator
    BY <1>2, <1>10, <2>2, <2>3 DEF K!Accept
  <2>4. CASE call[c].by # K!Operator
    <3>1. call[c].by = "user"
      BY <2>1, <2>4 DEF K!Senders
    <3>2. gas["user"] >= 1 /\ gas' = [gas EXCEPT !["user"] = @ - 1]
      BY <1>10, <2>4, <3>1 DEF K!Accept, K!Accepted, K!Funded
    <3> QED
      BY <1>2, <2>2, <3>2
  <2> QED
    BY <2>3, <2>4
<1>11. ASSUME NEW c \in CallIds, K!Send(c)
       PROVE  CallsInv'
  <2>1. call[c].pc = "send" /\ gifts' = gifts
    BY <1>11 DEF K!Send, K!At
  <2>2. ASSUME K!Accepted(c), K!Accept(c),
               call' = [call EXCEPT ![c].landed = @ + 1, ![c].nonce = 0,
                                    ![c].pc = IF call[c].quick THEN "done" ELSE "wait"]
        PROVE  CallsInv'
    <3> DEFINE pc == IF call[c].quick THEN "done" ELSE "wait"
               k == [call[c] EXCEPT !.landed = @ + 1, !.nonce = 0, !.pc = pc]
    <3>1. call' = [call EXCEPT ![c] = k] /\ pc \in {"done", "wait"}
      BY <2>2
    <3> HIDE DEF pc
    <3>2. k \in K!Call /\ k.pc = pc /\ k.landed = 1 /\ k.why = "none" /\ k.by = call[c].by
          /\ k.again = call[c].again
      <4>1. call[c].landed = 0 /\ call[c].why = "none"
        BY <1>1, <2>1 DEF CallOK
      <4>2. call[c].landed + 1 = 1
        BY <4>1
      <4> DEFINE j == [call[c] EXCEPT !.landed = 1, !.nonce = 0, !.pc = pc]
      <4>3. k = j
        BY <4>2
      <4>4. j \in K!Call
        BY <1>1, <3>1 DEF K!Call
      <4>5. j.pc = pc /\ j.landed = 1 /\ j.why = call[c].why /\ j.by = call[c].by
            /\ j.again = call[c].again
        <5>1. call[c] \in K!Call
          BY <1>1
        <5> QED
          BY <5>1 DEF K!Call
      <4> HIDE DEF j, k
      <4> QED
        BY <4>1, <4>3, <4>4, <4>5
    <3>3. CallOK(call[c], transactions')
      BY <1>1, <1>2, <1>10, <2>2, MoreSent
    <3> HIDE DEF k
    <3>4. CallOK(k, transactions')
      BY <3>1, <3>2, <3>3 DEF CallOK
    <3> QED
      BY <1>2, <1>10, <2>1, <2>2, <3>1, <3>4, OneCall
  <2>3. ASSUME call[c].nonce # transactions[call[c].by], UNCHANGED <<transactions, gas>>,
               NEW known \in BOOLEAN,
               IF K!Retries(c, known) THEN K!Repeat(c)
               ELSE call' = [call EXCEPT ![c].pc = "failed", ![c].nonce = 0,
                                         ![c].why = "nonce", ![c].strange = ~known]
        PROVE  CallsInv'
    <3>1. call[c].by \in K!Senders /\ call[c].nonce \in Nat
          /\ transactions[call[c].by] \in Nat /\ call[c].nonce <= transactions[call[c].by]
          /\ (call[c].again => call[c].nonce >= 1)
      BY <1>1, <1>2, <2>1 DEF K!Call, CallOK
    <3>2. transactions[call[c].by] >= 1 /\ (call[c].again => transactions[call[c].by] >= 2)
      BY <2>3, <3>1
    <3>3. CASE K!Retries(c, known)
      <4> DEFINE pc == K!Start(call[c].by)
                 k == [call[c] EXCEPT !.again = TRUE, !.nonce = 0, !.pc = pc]
      <4>1. call' = [call EXCEPT ![c] = k] /\ pc \in {"number", "gas"}
        BY <2>3, <3>3 DEF K!Repeat, K!Start
      <4> HIDE DEF pc
      <4>2. k \in K!Call /\ k.pc = pc /\ k.landed = 0 /\ k.why = "none" /\ k.by = call[c].by
        BY <1>1, <2>1, <4>1 DEF K!Call, CallOK
      <4> HIDE DEF k
      <4>3. CallOK(k, transactions')
        BY <2>3, <3>2, <4>1, <4>2 DEF CallOK
      <4> QED
        BY <1>2, <2>1, <2>3, <4>1, <4>3, OneCall
    <3>4. CASE ~K!Retries(c, known)
      <4> DEFINE k == [call[c] EXCEPT !.pc = "failed", !.nonce = 0, !.why = "nonce",
                                      !.strange = ~known]
      <4>1. call' = [call EXCEPT ![c] = k] /\ (known => call[c].again)
        BY <2>3, <3>4 DEF K!Retries
      <4>2. k \in K!Call /\ k.pc = "failed" /\ k.landed = 0 /\ k.why = "nonce"
            /\ k.by = call[c].by /\ k.again = call[c].again
        BY <1>1, <2>1 DEF K!Call, CallOK
      <4>5. k.strange = ~known
        BY <1>1 DEF K!Call
      <4> HIDE DEF k
      <4>6. k.again => transactions'[k.by] >= 1
        BY <2>3, <3>2, <4>2
      <4>7. ~k.strange => transactions'[k.by] >= 2
        BY <2>3, <3>2, <4>1, <4>2, <4>5
      <4>3. CallOK(k, transactions')
        BY <4>2, <4>6, <4>7 DEF CallOK
      <4> QED
        BY <1>2, <2>1, <2>3, <4>1, <4>3, OneCall
    <3> QED
      BY <3>3, <3>4
  <2>4. ASSUME UNCHANGED <<transactions, gas>>, K!Fail(c, "funds")
        PROVE  CallsInv'
    <3> DEFINE k == [call[c] EXCEPT !.pc = "failed", !.nonce = 0, !.why = "funds"]
    <3>1. call' = [call EXCEPT ![c] = k]
      BY <2>4 DEF K!Fail
    <3>2. k \in K!Call /\ k.pc = "failed" /\ k.landed = 0 /\ k.why = "funds" /\ k.by = call[c].by
          /\ k.again = call[c].again
      BY <1>1, <2>1 DEF K!Call, CallOK
    <3> HIDE DEF k
    <3>3. CallOK(k, transactions')
      BY <1>1, <2>4, <3>2 DEF CallOK
    <3> QED
      BY <1>2, <2>1, <2>4, <3>1, <3>3, OneCall
  <2> QED
    BY <1>11, <2>2, <2>3, <2>4 DEF K!Send
<1>12. ASSUME NEW c \in CallIds, K!LoseAnswer(c)
       PROVE  CallsInv'
  <2> DEFINE k == [call[c] EXCEPT !.landed = @ + 1, !.nonce = 0, !.why = "lost", !.pc = "failed"]
  <2>1. call[c].pc = "send" /\ gifts' = gifts /\ K!Accepted(c) /\ K!Accept(c)
        /\ call' = [call EXCEPT ![c].landed = @ + 1, ![c].nonce = 0,
                            ![c].again = @ \/ K!Retries(c, FALSE),
                            ![c].why = IF K!Retries(c, FALSE) THEN "none" ELSE "lost",
                            ![c].pc = IF K!Retries(c, FALSE) THEN K!Start(call[c].by) ELSE "failed"]
    BY <1>12 DEF K!LoseAnswer, K!At
  <2>2. ~K!Retries(c, FALSE)
    BY DEF K!Retries
  <2>3. call[c].again \in BOOLEAN /\ (call[c].again \/ K!Retries(c, FALSE)) = call[c].again
    BY <1>1, <2>2 DEF K!Call
  <2>4. call' = [call EXCEPT ![c] = k]
    <3>1. call' = [call EXCEPT ![c].landed = @ + 1, ![c].nonce = 0, ![c].again = @,
                               ![c].why = "lost", ![c].pc = "failed"]
      BY <1>1, <1>3, <2>1, <2>2, <2>3, Zenon
    <3> QED
      BY <1>1, <1>3, <3>1 DEF K!Call
  <2>5. k \in K!Call /\ k.pc = "failed" /\ k.landed = 1 /\ k.why = "lost" /\ k.by = call[c].by
        /\ k.again = call[c].again
    <3>1. call[c].landed = 0 /\ call[c].why = "none"
      BY <1>1, <2>1 DEF CallOK
    <3>2. call[c].landed + 1 = 1
      BY <3>1
    <3> DEFINE j == [call[c] EXCEPT !.landed = 1, !.nonce = 0, !.why = "lost", !.pc = "failed"]
    <3>3. k = j
      BY <3>2
    <3>4. j \in K!Call
      BY <1>1 DEF K!Call
    <3> QED
      <4>1. k.pc = "failed" /\ k.why = "lost" /\ k.landed = call[c].landed + 1
            /\ k.by = call[c].by /\ k.again = call[c].again
        BY <1>1 DEF K!Call
      <4> QED
        BY <3>2, <3>3, <3>4, <4>1
  <2>6. CallOK(call[c], transactions')
    BY <1>1, <1>2, <1>10, <2>1, MoreSent
  <2> HIDE DEF k
  <2>7. CallOK(k, transactions')
    BY <2>5, <2>6 DEF CallOK
  <2> QED
    BY <1>2, <1>10, <2>1, <2>4, <2>7, OneCall
<1>13. ASSUME NEW g \in gifts, K!MineGift(g)
       PROVE  CallsInv'
  <2>1. UNCHANGED <<transactions, call>> /\ gifts' \subseteq CallIds \X Nat
    BY <1>2, <1>13 DEF K!MineGift
  <2>2. gas' \in [{"user"} -> Nat]
    <3> DEFINE u == call[g[1]].by
    <3>1. gas' = [gas EXCEPT ![u] = @ + 3]
      BY <1>13 DEF K!MineGift
    <3>2. gas["user"] \in Nat /\ gas["user"] + 3 \in Nat
      BY <1>2
    <3> HIDE DEF u
    <3>3. CASE u = "user"
      BY <1>2, <3>1, <3>2, <3>3
    <3>4. CASE u # "user"
      BY <1>2, <3>1, <3>2, <3>4
    <3> QED
      BY <3>3, <3>4
  <2> QED
    BY <1>3, <2>1, <2>2 DEF CallsInv, CallsShape
<1>14. CASE UNCHANGED K!vars
  BY <1>14 DEF K!vars, CallsInv, CallsShape
<1> QED
  BY <1>4, <1>5, <1>6, <1>7, <1>8, <1>9, <1>11, <1>12, <1>13, <1>14 DEF K!Next, CallIds

(* A transaction is sent once, and one retry is enough, however many calls   *)
(* there are.                                                              *)
THEOREM RetriesAreSafe == Spec => [](K!LandsOnce /\ K!RetrySuffices)
<1>1. CallsInv => K!LandsOnce /\ K!RetrySuffices
  BY DEF CallsInv, CallOK, K!LandsOnce, K!RetrySuffices, CallIds
<1> QED
  BY <1>1, CallsStart, CallsStep, CallsKept, PTL DEF Spec

-----------------------------------------------------------------------------

(* The calls of the user that have cost gas, and the gas there would be      *)
(* without them.                                                           *)
LandedIn(k) == {c \in CallIds : k[c].by = "user" /\ k[c].landed = 1}
GasBeside(g, k) == g["user"] + Cardinality(LandedIn(k))
Landed == LandedIn(call)
GasGiven == GasBeside(gas, call)

GiftOK(c) ==
    /\ call[c].pc \in {"gas", "number gift", "gift", "given"} => call[c].by = "user"
    /\ call[c].pc = "idle" => call[c].given = 0
    /\ ~call[c].quick =>
          /\ call[c].given <= 1
          /\ call[c].pc \in {"number gift", "gift"} => call[c].given = 0
          /\ call[c].given = 1 /\ <<c, 0>> \notin gifts => GasGiven >= 4
          /\ call[c].given = 1 /\ call[c].pc \notin {"given", "failed"} => <<c, 0>> \notin gifts

GiftsInv ==
    /\ GasGiven >= 1
    /\ \A g \in gifts : call[g[1]].by = "user" /\ call[g[1]].pc # "idle"
    /\ \A c \in CallIds : GiftOK(c)

(* The gas left and the calls landed are counted in natural numbers.        *)
LEMMA GasIsNatural ==
    ASSUME IsFiniteSet(Requests), NEW g, NEW k, g["user"] \in Nat
    PROVE  /\ IsFiniteSet(CallIds) /\ IsFiniteSet(LandedIn(k))
           /\ Cardinality(LandedIn(k)) \in Nat /\ GasBeside(g, k) \in Nat
<1>1. IsFiniteSet(CallIds)
  BY FS_AddElement DEF CallIds
<1>2. IsFiniteSet(LandedIn(k))
  BY <1>1, FS_Subset DEF LandedIn
<1>3. Cardinality(LandedIn(k)) \in Nat
  BY <1>2, FS_CardinalityType
<1> QED
  BY <1>1, <1>2, <1>3 DEF GasBeside

(* So they are in a state of the calls.                                     *)
LEMMA GasGivenType ==
    ASSUME CallsInv, IsFiniteSet(Requests)
    PROVE  /\ IsFiniteSet(CallIds)
           /\ IsFiniteSet(Landed) /\ Cardinality(Landed) \in Nat
           /\ gas["user"] \in Nat /\ GasGiven \in Nat
<1>1. gas["user"] \in Nat
  BY DEF CallsInv, CallsShape
<1> QED
  BY <1>1, GasIsNatural DEF Landed, GasGiven

(* A call that lands costs one gas.                                         *)
LEMMA GasOfOneMore ==
    ASSUME IsFiniteSet(Requests), NEW g, NEW k, NEW h, NEW j, NEW c \in CallIds,
           g["user"] \in Nat, h["user"] = g["user"] - 1, h["user"] \in Nat,
           k[c].landed = 0, j[c].landed = 1, j[c].by = "user",
           \A d \in CallIds \ {c} : j[d] = k[d]
    PROVE  GasBeside(h, j) = GasBeside(g, k)
<1>1. LandedIn(j) = LandedIn(k) \union {c} /\ c \notin LandedIn(k)
  BY DEF LandedIn
<1>2. IsFiniteSet(LandedIn(k)) /\ Cardinality(LandedIn(k)) \in Nat
  BY GasIsNatural
<1>3. Cardinality(LandedIn(j)) = Cardinality(LandedIn(k)) + 1
  BY <1>1, <1>2, FS_AddElement
<1> QED
  BY <1>2, <1>3 DEF GasBeside

(* A call that does not land, or one of the operator's, costs none.         *)
LEMMA GasOfNoMore ==
    ASSUME NEW g, NEW k, NEW j, NEW c \in CallIds,
           k[c].landed = 0, j[c].landed = 0 \/ (j[c].landed = 1 /\ j[c].by # "user"),
           \A d \in CallIds \ {c} : j[d] = k[d]
    PROVE  GasBeside(g, j) = GasBeside(g, k)
<1>1. LandedIn(j) = LandedIn(k)
  BY DEF LandedIn
<1> QED
  BY <1>1 DEF GasBeside

(* Two other calls leave a call that has its gift enough for a retry.       *)
LEMMA GasIsLeft ==
    ASSUME CallsInv, GiftsInv, IsFiniteSet(Requests), Cardinality(Requests) <= 2,
           NEW c \in CallIds, call[c].landed = 0, GasGiven >= 4
    PROVE  ~K!Scarce("user")
<1>1. Landed \subseteq CallIds \ {c} /\ IsFiniteSet(CallIds)
  BY GasGivenType DEF Landed, LandedIn
<1>2. Cardinality(CallIds) <= 3
  <2>1. Cardinality(Requests) \in Nat
    BY FS_CardinalityType
  <2>2. Cardinality(CallIds) <= Cardinality(Requests) + 1
    <3>1. Cardinality(Requests \union {Nobody}) =
            IF Nobody \in Requests THEN Cardinality(Requests) ELSE Cardinality(Requests) + 1
      BY FS_AddElement
    <3> QED
      BY <2>1, <3>1 DEF CallIds
  <2>3. Cardinality(CallIds) \in Nat
    BY <1>1, FS_CardinalityType
  <2> QED
    BY <2>1, <2>2, <2>3
<1>3. IsFiniteSet(CallIds \ {c}) /\ Cardinality(CallIds \ {c}) = Cardinality(CallIds) - 1
  BY <1>1, FS_RemoveElement
<1>4. Cardinality(Landed) <= Cardinality(CallIds \ {c})
  BY <1>1, <1>3, FS_Subset
<1>5. Cardinality(CallIds) \in Nat /\ Cardinality(Landed) \in Nat /\ gas["user"] \in Nat
  BY <1>1, FS_CardinalityType, GasGivenType
<1>6. Cardinality(Landed) <= 2
  BY <1>2, <1>3, <1>4, <1>5
<1>7. gas["user"] >= 2
  BY <1>5, <1>6 DEF GasGiven, GasBeside, Landed
<1> QED
  BY <1>5, <1>7 DEF K!Scarce

(* Nobody has been given gas at the start.                                  *)
LEMMA GiftsStart == Init /\ IsFiniteSet(Requests) => GiftsInv
<1> SUFFICES ASSUME Init, IsFiniteSet(Requests)
             PROVE  GiftsInv
  OBVIOUS
<1>1. CallsInv
  BY CallsStart
<1>2. gifts = {} /\ call = [c \in CallIds |-> K!NoCall] /\ gas = [u \in {"user"} |-> 1]
  BY DEF Init, K!Init, CallIds
<1>3. gas["user"] = 1
  BY <1>2
<1>4. GasGiven >= 1
  BY <1>1, <1>3, GasGivenType DEF GasGiven, GasBeside, Landed
<1>5. ASSUME NEW c \in CallIds
      PROVE  GiftOK(c)
  <2>1. call[c] = K!NoCall
    BY <1>2
  <2>2. K!NoCall.pc = "idle" /\ K!NoCall.given = 0
    BY DEF K!NoCall
  <2> QED
    BY <2>1, <2>2 DEF GiftOK
<1> QED
  BY <1>2, <1>4, <1>5 DEF GiftsInv

(* What the step of a call has to leave of the others.                      *)
LEMMA GiftsOfOthers ==
    ASSUME CallsInv, CallsInv', GiftsInv, IsFiniteSet(Requests), NEW c \in CallIds,
           \A d \in CallIds \ {c} : call'[d] = call[d],
           GasGiven' >= GasGiven,
           \A g \in gifts' : g \in gifts \/ g[1] = c,
           \A d \in CallIds \ {c} : <<d, 0>> \in gifts => <<d, 0>> \in gifts',
           \A g \in gifts' : g[1] = c => call'[c].by = "user" /\ call'[c].pc # "idle",
           GiftOK(c)'
    PROVE  GiftsInv'
<1>1. GasGiven \in Nat /\ GasGiven' \in Nat
  <2>1. GasGiven \in Nat
    BY GasGivenType
  <2>2. gas'["user"] \in Nat
    BY DEF CallsInv, CallsShape
  <2> QED
    BY <2>1, <2>2, GasIsNatural DEF GasGiven
<1>2. GasGiven' >= 1
  BY <1>1 DEF GiftsInv
<1>3. gifts \subseteq CallIds \X Nat /\ gifts' \subseteq CallIds \X Nat
  BY DEF CallsInv, CallsShape
<1>4. ASSUME NEW g \in gifts'
      PROVE  call'[g[1]].by = "user" /\ call'[g[1]].pc # "idle"
  <2>1. CASE g[1] = c
    BY <2>1
  <2>2. CASE g[1] # c
    BY <1>3, <2>2 DEF GiftsInv
  <2> QED
    BY <2>1, <2>2
<1>5. ASSUME NEW d \in CallIds \ {c}
      PROVE  GiftOK(d)'
  <2>1. GiftOK(d) /\ call'[d] = call[d] /\ (<<d, 0>> \in gifts => <<d, 0>> \in gifts')
    BY DEF GiftsInv
  <2>2. <<d, 0>> \in gifts' => <<d, 0>> \in gifts
    OBVIOUS
  <2>3. GasGiven >= 4 => GasGiven' >= 4
    BY <1>1
  <2> QED
    BY <2>1, <2>2, <2>3 DEF GiftOK
<1> QED
  BY <1>2, <1>4, <1>5 DEF GiftsInv

(* With at most two other calls, a call that was given gas is not short of  *)
(* it.                                                                      *)
LEMMA GiftsKept ==
    ASSUME IsFiniteSet(Requests), Cardinality(Requests) <= 2,
           CallsInv, CallsInv', GiftsInv, [K!Next]_(K!vars)
    PROVE  GiftsInv'
<1>1. ASSUME NEW c \in CallIds
      PROVE  call[c] \in K!Call /\ CallOK(call[c], transactions) /\ GiftOK(c)
  BY DEF CallsInv, CallOK, GiftsInv
<1>2. DOMAIN call = CallIds /\ gas["user"] \in Nat /\ GasGiven \in Nat
      /\ gas \in [{"user"} -> Nat]
  BY GasGivenType DEF CallsInv, CallsShape
<1>3. GasGiven = GasBeside(gas, call) /\ GasGiven' = GasBeside(gas', call')
  BY DEF GasGiven
<1>0. ASSUME NEW c \in CallIds, gas' = gas, call[c].landed = 0, call'[c].landed = 0,
             \A d \in CallIds \ {c} : call'[d] = call[d]
      PROVE  GasGiven' = GasGiven /\ GasGiven' >= GasGiven
  <2>1. LandedIn(call') = LandedIn(call)
    BY <1>0 DEF LandedIn
  <2>2. GasGiven' = GasGiven
    BY <1>0, <1>3, <2>1 DEF GasBeside
  <2> QED
    BY <1>2, <2>2
<1>4. ASSUME NEW c \in CallIds, NEW by \in K!Senders, NEW quick \in BOOLEAN,
             K!Begin(c, by, quick)
      PROVE  GiftsInv'
  <2>1. call[c].pc = "idle" /\ UNCHANGED <<gas, gifts>>
        /\ call' = [call EXCEPT ![c] = [K!NoCall EXCEPT !.pc = K!Start(by), !.by = by, !.quick = quick]]
    BY <1>4 DEF K!Begin, K!At
  <2>2. call'[c].pc = K!Start(by) /\ call'[c].by = by /\ call'[c].given = 0 /\ call'[c].landed = 0
    BY <1>2, <2>1 DEF K!NoCall
  <2>3. \A d \in CallIds \ {c} : call'[d] = call[d]
    BY <1>2, <2>1
  <2>4. call[c].landed = 0
    BY <1>1, <2>1 DEF CallOK
  <2>5. GasGiven' = GasGiven /\ GasGiven' >= GasGiven
    BY <1>0, <2>1, <2>2, <2>3, <2>4
  <2>6. \A g \in gifts : g[1] # c
    BY <2>1 DEF GiftsInv
  <2>7. GiftOK(c)'
    BY <2>2 DEF GiftOK, K!Start, K!Senders
  <2> QED
    BY <1>2, <2>1, <2>3, <2>5, <2>6, <2>7, GiftsOfOthers
<1>5. ASSUME NEW c \in CallIds, K!EstimateGas(c)
      PROVE  GiftsInv'
  <2> DEFINE pc == IF K!Scarce(call[c].by) THEN "number gift" ELSE "number"
  <2>1. call[c].pc = "gas" /\ UNCHANGED <<gas, gifts>> /\ call' = [call EXCEPT ![c].pc = pc]
    BY <1>5 DEF K!EstimateGas, K!At, K!Goto
  <2> HIDE DEF pc
  <2>2. call'[c].pc = pc /\ call'[c].by = call[c].by /\ call'[c].given = call[c].given
        /\ call'[c].landed = call[c].landed /\ call'[c].quick = call[c].quick
    BY <1>1, <1>2, <2>1 DEF K!Call
  <2>3. \A d \in CallIds \ {c} : call'[d] = call[d]
    BY <1>2, <2>1
  <2>4. call[c].landed = 0 /\ call[c].by = "user"
    BY <1>1, <2>1 DEF CallOK, GiftOK
  <2>5. GasGiven' = GasGiven /\ GasGiven' >= GasGiven
    BY <1>0, <2>1, <2>2, <2>3, <2>4
  <2>6. ASSUME ~call[c].quick, call[c].given = 1
        PROVE  pc = "number"
    <3>1. GasGiven >= 4
      BY <1>1, <2>1, <2>6 DEF GiftOK
    <3>2. ~K!Scarce(call[c].by)
      BY <2>4, <3>1, GasIsLeft
    <3> QED
      BY <3>2 DEF pc
  <2>7. pc \in {"number gift", "number"}
    BY DEF pc
  <2>8. ~call[c].quick => call[c].given \in {0, 1}
    <3>1. call[c].given \in Nat
      BY <1>1 DEF K!Call
    <3>2. ~call[c].quick => call[c].given <= 1
      BY <1>1 DEF GiftOK
    <3> QED
      BY <3>1, <3>2
  <2>9. GiftOK(c)'
    BY <1>1, <2>1, <2>2, <2>4, <2>5, <2>6, <2>7, <2>8 DEF GiftOK
  <2> QED
    BY <1>2, <2>1, <2>2, <2>3, <2>4, <2>5, <2>7, <2>9, GiftsOfOthers
<1>6. ASSUME NEW c \in CallIds, K!ReadNumber(c)
      PROVE  GiftsInv'
  <2> DEFINE by == IF K!At(c, "number gift") THEN K!Operator ELSE call[c].by
             pc == IF call[c].pc = "number gift" THEN "gift" ELSE "send"
  <2>1. call[c].pc \in {"number gift", "number"} /\ UNCHANGED <<gas, gifts>>
        /\ call' = [call EXCEPT ![c].nonce = transactions[by], ![c].pc = pc]
    BY <1>6 DEF K!ReadNumber, K!At
  <2> HIDE DEF pc, by
  <2>2. call'[c].pc = pc /\ call'[c].by = call[c].by /\ call'[c].given = call[c].given
        /\ call'[c].landed = call[c].landed /\ call'[c].quick = call[c].quick
    BY <1>1, <1>2, <2>1 DEF K!Call
  <2>3. \A d \in CallIds \ {c} : call'[d] = call[d]
    BY <1>2, <2>1
  <2>4. call[c].landed = 0
    BY <1>1, <2>1 DEF CallOK
  <2>5. GasGiven' = GasGiven /\ GasGiven' >= GasGiven
    BY <1>0, <2>1, <2>2, <2>3, <2>4
  <2>6. pc = (IF call[c].pc = "number gift" THEN "gift" ELSE "send")
    BY DEF pc
  <2>7. GiftOK(c)'
    <3>1. CASE call[c].pc = "number gift"
      <4>1. call'[c].pc = "gift" /\ call[c].by = "user" /\ (~call[c].quick => call[c].given = 0)
        BY <1>1, <2>2, <2>6, <3>1 DEF GiftOK
      <4> QED
        BY <2>2, <4>1 DEF GiftOK
    <3>2. CASE call[c].pc = "number"
      <4>1. call'[c].pc = "send"
        BY <2>2, <2>6, <3>2
      <4>2. ~call[c].quick => call[c].given <= 1
               /\ (call[c].given = 1 => <<c, 0>> \notin gifts /\ GasGiven' >= 4)
        BY <1>1, <2>5, <3>2 DEF GiftOK
      <4> QED
        BY <2>1, <2>2, <4>1, <4>2 DEF GiftOK
    <3> QED
      BY <2>1, <3>1, <3>2
  <2>9. pc \in {"gift", "send"}
    BY <2>6
  <2>8. \A g \in gifts : g[1] = c => call[c].by = "user"
    BY DEF GiftsInv
  <2> QED
    BY <2>1, <2>2, <2>3, <2>5, <2>7, <2>8, <2>9, GiftsOfOthers
<1>7. ASSUME NEW c \in CallIds, K!GiveGas(c), call[c].nonce = transactions[K!Operator]
      PROVE  GiftsInv'
  <2> DEFINE pc == IF call[c].quick THEN "number" ELSE "given"
  <2>1. call[c].pc = "gift" /\ UNCHANGED gas /\ gifts' = gifts \union {<<c, call[c].given>>}
        /\ call' = [call EXCEPT ![c].given = @ + 1, ![c].nonce = 0, ![c].pc = pc]
    BY <1>7 DEF K!GiveGas, K!At
  <2> HIDE DEF pc
  <2>2. call'[c].pc = pc /\ call'[c].by = call[c].by /\ call'[c].given = call[c].given + 1
        /\ call'[c].landed = call[c].landed /\ call'[c].quick = call[c].quick
    BY <1>1, <1>2, <2>1 DEF K!Call
  <2>3. \A d \in CallIds \ {c} : call'[d] = call[d]
    BY <1>2, <2>1
  <2>4. call[c].landed = 0 /\ call[c].by = "user"
    BY <1>1, <2>1 DEF CallOK, GiftOK
  <2>5. GasGiven' = GasGiven /\ GasGiven' >= GasGiven
    BY <1>0, <2>1, <2>2, <2>3, <2>4
  <2>6. pc = (IF call[c].quick THEN "number" ELSE "given")
    BY DEF pc
  <2>7. ~call[c].quick => call[c].given = 0 /\ call'[c].given = 1 /\ <<c, 0>> \in gifts'
    <3>1. ~call[c].quick => call[c].given = 0
      BY <1>1, <2>1 DEF GiftOK
    <3> QED
      BY <2>1, <2>2, <3>1
  <2>8. GiftOK(c)'
    BY <2>2, <2>4, <2>6, <2>7 DEF GiftOK
  <2>9. \A g \in gifts' : g \in gifts \/ g[1] = c
    BY <2>1
  <2> QED
    BY <1>2, <2>1, <2>2, <2>3, <2>4, <2>5, <2>6, <2>8, <2>9, GiftsOfOthers
<1>8. ASSUME NEW c \in CallIds, K!GiveGas(c), call[c].nonce # transactions[K!Operator]
      PROVE  GiftsInv'
  <2>1. call[c].pc = "gift" /\ UNCHANGED <<gas, gifts>>
        /\ call' = [call EXCEPT ![c].pc = "failed", ![c].nonce = 0, ![c].why = "gift"]
    BY <1>8 DEF K!GiveGas, K!At, K!Fail
  <2>2. call'[c].pc = "failed" /\ call'[c].by = call[c].by /\ call'[c].given = call[c].given
        /\ call'[c].landed = call[c].landed /\ call'[c].quick = call[c].quick
    BY <1>1, <1>2, <2>1 DEF K!Call
  <2>3. \A d \in CallIds \ {c} : call'[d] = call[d]
    BY <1>2, <2>1
  <2>4. call[c].landed = 0 /\ call[c].by = "user"
    BY <1>1, <2>1 DEF CallOK, GiftOK
  <2>5. GasGiven' = GasGiven /\ GasGiven' >= GasGiven
    BY <1>0, <2>1, <2>2, <2>3, <2>4
  <2>6. GiftOK(c)'
    BY <1>1, <2>1, <2>2, <2>4, <2>5 DEF GiftOK
  <2> QED
    BY <1>2, <2>1, <2>2, <2>3, <2>4, <2>5, <2>6, GiftsOfOthers
<1>9. ASSUME NEW c \in CallIds, K!AwaitGift(c)
      PROVE  GiftsInv'
  <2>1. call[c].pc = "given" /\ UNCHANGED <<gas, gifts>> /\ <<c, call[c].given - 1>> \notin gifts
        /\ call' = [call EXCEPT ![c].pc = "number"]
    BY <1>9 DEF K!AwaitGift, K!At, K!Goto
  <2>2. call'[c].pc = "number" /\ call'[c].by = call[c].by /\ call'[c].given = call[c].given
        /\ call'[c].landed = call[c].landed /\ call'[c].quick = call[c].quick
    BY <1>1, <1>2, <2>1 DEF K!Call
  <2>3. \A d \in CallIds \ {c} : call'[d] = call[d]
    BY <1>2, <2>1
  <2>4. call[c].landed = 0 /\ call[c].by = "user"
    BY <1>1, <2>1 DEF CallOK, GiftOK
  <2>5. GasGiven' = GasGiven /\ GasGiven' >= GasGiven
    BY <1>0, <2>1, <2>2, <2>3, <2>4
  <2>6. call[c].given = 1 => <<c, 0>> \notin gifts
    BY <2>1
  <2>7. GiftOK(c)'
    BY <1>1, <2>1, <2>2, <2>4, <2>5, <2>6 DEF GiftOK
  <2> QED
    BY <1>2, <2>1, <2>2, <2>3, <2>4, <2>5, <2>7, GiftsOfOthers
<1>10. ASSUME NEW c \in CallIds, K!AwaitReceipt(c)
       PROVE  GiftsInv'
  <2>1. call[c].pc = "wait" /\ UNCHANGED <<gas, gifts>> /\ call' = [call EXCEPT ![c].pc = "done"]
    BY <1>10 DEF K!AwaitReceipt, K!At, K!Goto
  <2>2. call'[c].pc = "done" /\ call'[c].by = call[c].by /\ call'[c].given = call[c].given
        /\ call'[c].landed = call[c].landed /\ call'[c].quick = call[c].quick
    BY <1>1, <1>2, <2>1 DEF K!Call
  <2>3. \A d \in CallIds \ {c} : call'[d] = call[d]
    BY <1>2, <2>1
  <2>4. LandedIn(call') = LandedIn(call)
    BY <2>2, <2>3 DEF LandedIn
  <2>5. GasGiven' = GasGiven
    BY <1>3, <2>1, <2>4 DEF GasBeside
  <2>6. GiftOK(c)'
    BY <1>1, <2>1, <2>2, <2>5 DEF GiftOK
  <2>7. \A g \in gifts : g[1] = c => call[c].by = "user"
    BY DEF GiftsInv
  <2> QED
    BY <1>2, <2>1, <2>2, <2>3, <2>5, <2>6, <2>7, GiftsOfOthers
<1>11. ASSUME NEW c \in CallIds, call[c].pc = "send", gifts' = gifts,
              call'[c].by = call[c].by, call'[c].quick = call[c].quick,
              call'[c].given = call[c].given,
              call'[c].pc \in {"gas", "number", "done", "wait", "failed"},
              call'[c].pc = "gas" => call[c].by = "user",
              \A d \in CallIds \ {c} : call'[d] = call[d],
              GasGiven' = GasGiven
       PROVE  GiftsInv'
  <2>1. \A g \in gifts : g[1] = c => call[c].by = "user"
    BY DEF GiftsInv
  <2>2. GiftOK(c)'
    BY <1>1, <1>11 DEF GiftOK
  <2> QED
    BY <1>2, <1>11, <2>1, <2>2, GiftsOfOthers
<1>12. ASSUME NEW c \in CallIds, call[c].pc = "send", K!Accepted(c), K!Accept(c),
              call'[c].by = call[c].by, call'[c].landed = call[c].landed + 1,
              \A d \in CallIds \ {c} : call'[d] = call[d]
       PROVE  GasGiven' = GasGiven
  <2>1. call[c].landed = 0 /\ call'[c].landed = 1 /\ call[c].by \in K!Senders
    <3>1. call[c].landed = 0
      BY <1>1, <1>12 DEF CallOK
    <3>2. call[c].by \in K!Senders
      BY <1>1 DEF K!Call
    <3> QED
      BY <1>12, <3>1, <3>2
  <2>2. CASE call[c].by = K!Operator
    <3>1. gas' = gas /\ call'[c].by # "user"
      BY <1>12, <2>2 DEF K!Accept, K!Operator
    <3> QED
      BY <1>3, <1>12, <2>1, <3>1, GasOfNoMore
  <2>3. CASE call[c].by # K!Operator
    <3>1. call[c].by = "user"
      BY <2>1, <2>3 DEF K!Senders
    <3>2. gas["user"] >= 1 /\ gas' = [gas EXCEPT !["user"] = @ - 1]
      BY <1>12, <2>3, <3>1 DEF K!Accept, K!Accepted, K!Funded
    <3>3. gas'["user"] = gas["user"] - 1 /\ gas'["user"] \in Nat
      BY <1>2, <3>2
    <3> QED
      BY <1>2, <1>3, <1>12, <2>1, <3>1, <3>3, GasOfOneMore
  <2> QED
    BY <2>2, <2>3
<1>13. ASSUME NEW c \in CallIds, K!Send(c)
       PROVE  GiftsInv'
  <2>1. call[c].pc = "send" /\ gifts' = gifts /\ call[c].landed = 0
        /\ call[c].by \in K!Senders
    BY <1>1, <1>13 DEF K!Send, K!At, CallOK, K!Call
  <2>2. ASSUME K!Accepted(c), K!Accept(c),
               call' = [call EXCEPT ![c].landed = @ + 1, ![c].nonce = 0,
                                    ![c].pc = IF call[c].quick THEN "done" ELSE "wait"]
        PROVE  GiftsInv'
    <3> DEFINE pc == IF call[c].quick THEN "done" ELSE "wait"
    <3>1. pc \in {"done", "wait"}
          /\ call' = [call EXCEPT ![c].landed = @ + 1, ![c].nonce = 0, ![c].pc = pc]
      BY <2>2
    <3> HIDE DEF pc
    <3>2. call'[c].pc = pc /\ call'[c].by = call[c].by /\ call'[c].given = call[c].given
          /\ call'[c].landed = call[c].landed + 1 /\ call'[c].quick = call[c].quick
      BY <1>1, <1>2, <3>1 DEF K!Call
    <3>3. \A d \in CallIds \ {c} : call'[d] = call[d]
      BY <1>2, <3>1
    <3>4. GasGiven' = GasGiven
      BY <1>12, <2>1, <2>2, <3>2, <3>3
    <3> QED
      BY <1>11, <2>1, <3>1, <3>2, <3>3, <3>4
  <2>3. ASSUME UNCHANGED <<transactions, gas>>, NEW known \in BOOLEAN,
               IF K!Retries(c, known) THEN K!Repeat(c)
               ELSE call' = [call EXCEPT ![c].pc = "failed", ![c].nonce = 0,
                                         ![c].why = "nonce", ![c].strange = ~known]
        PROVE  GiftsInv'
    <3> DEFINE pc == IF K!Retries(c, known) THEN K!Start(call[c].by) ELSE "failed"
    <3>1. call'[c].pc = pc /\ call'[c].by = call[c].by /\ call'[c].given = call[c].given
          /\ call'[c].landed = call[c].landed /\ call'[c].quick = call[c].quick
      <4>1. CASE K!Retries(c, known)
        <5> DEFINE start == K!Start(call[c].by)
        <5>1. call' = [call EXCEPT ![c].again = TRUE, ![c].nonce = 0, ![c].pc = start]
          BY <2>3, <4>1 DEF K!Repeat
        <5>2. pc = start
          BY <4>1
        <5> HIDE DEF start, pc
        <5> QED
          BY <1>1, <1>2, <5>1, <5>2 DEF K!Call
      <4>2. CASE ~K!Retries(c, known)
        <5> DEFINE strange == ~known
        <5>1. call' = [call EXCEPT ![c].pc = "failed", ![c].nonce = 0, ![c].why = "nonce",
                                   ![c].strange = strange]
          BY <2>3, <4>2
        <5>2. pc = "failed"
          BY <4>2
        <5> HIDE DEF strange, pc
        <5> QED
          BY <1>1, <1>2, <5>1, <5>2 DEF K!Call
      <4> QED
        BY <4>1, <4>2
    <3>2. pc \in {"gas", "number", "failed"} /\ (pc = "gas" => call[c].by = "user")
      BY <2>1 DEF K!Start, K!Senders
    <3> HIDE DEF pc
    <3>3. \A d \in CallIds \ {c} : call'[d] = call[d]
      BY <1>2, <2>3 DEF K!Repeat
    <3>4. GasGiven' = GasGiven
      BY <1>0, <2>1, <2>3, <3>1, <3>3
    <3> QED
      BY <1>11, <2>1, <3>1, <3>2, <3>3, <3>4
  <2>4. ASSUME UNCHANGED <<transactions, gas>>, K!Fail(c, "funds")
        PROVE  GiftsInv'
    <3>1. call'[c].pc = "failed" /\ call'[c].by = call[c].by /\ call'[c].given = call[c].given
          /\ call'[c].landed = call[c].landed /\ call'[c].quick = call[c].quick
      BY <1>1, <1>2, <2>4 DEF K!Call, K!Fail
    <3>2. \A d \in CallIds \ {c} : call'[d] = call[d]
      BY <1>2, <2>4 DEF K!Fail
    <3>3. GasGiven' = GasGiven
      BY <1>0, <2>1, <2>4, <3>1, <3>2
    <3> QED
      BY <1>11, <2>1, <3>1, <3>2, <3>3
  <2> QED
    BY <1>13, <2>2, <2>3, <2>4 DEF K!Send
<1>14. ASSUME NEW c \in CallIds, K!LoseAnswer(c)
       PROVE  GiftsInv'
  <2> DEFINE pc == IF K!Retries(c, FALSE) THEN K!Start(call[c].by) ELSE "failed"
             why == IF K!Retries(c, FALSE) THEN "none" ELSE "lost"
             again == call[c].again \/ K!Retries(c, FALSE)
  <2>1. call[c].pc = "send" /\ gifts' = gifts /\ K!Accepted(c) /\ K!Accept(c)
        /\ call' = [call EXCEPT ![c].landed = @ + 1, ![c].nonce = 0, ![c].again = again,
                                ![c].why = why, ![c].pc = pc]
    BY <1>2, <1>14, Zenon DEF K!LoseAnswer, K!At
  <2>2. pc = "failed"
    BY DEF K!Retries
  <2> HIDE DEF pc, why, again
  <2>3. call'[c].pc = "failed" /\ call'[c].by = call[c].by /\ call'[c].given = call[c].given
        /\ call'[c].landed = call[c].landed + 1 /\ call'[c].quick = call[c].quick
    <3> DEFINE landed == call[c].landed + 1
    <3>1. call' = [call EXCEPT ![c].landed = landed, ![c].nonce = 0, ![c].again = again,
                               ![c].why = why, ![c].pc = pc]
      BY <2>1
    <3> HIDE DEF landed
    <3>3. call'[c] = [call[c] EXCEPT !.landed = landed, !.nonce = 0, !.again = again,
                                     !.why = why, !.pc = pc]
      BY <1>2, <3>1
    <3>2. call'[c].pc = pc /\ call'[c].by = call[c].by /\ call'[c].given = call[c].given
          /\ call'[c].landed = landed /\ call'[c].quick = call[c].quick
      BY <1>1, <3>3 DEF K!Call
    <3> QED
      BY <2>2, <3>2 DEF landed
  <2>4. \A d \in CallIds \ {c} : call'[d] = call[d]
    BY <1>2, <2>1
  <2>5. GasGiven' = GasGiven
    BY <1>12, <2>1, <2>3, <2>4
  <2> QED
    BY <1>11, <2>1, <2>3, <2>4, <2>5
<1>15. ASSUME NEW g \in gifts, K!MineGift(g)
       PROVE  GiftsInv'
  <2>1. g[1] \in CallIds /\ call[g[1]].by = "user" /\ call' = call /\ gifts' = gifts \ {g}
        /\ gas' = [gas EXCEPT !["user"] = @ + 3]
    BY <1>15 DEF K!MineGift, GiftsInv, CallsInv, CallsShape
  <2>2. gas'["user"] = gas["user"] + 3
    BY <1>2, <2>1
  <2>3. GasGiven' = GasGiven + 3 /\ GasGiven >= 1
    <3>1. Cardinality(LandedIn(call)) \in Nat
      BY <1>2, GasIsNatural
    <3>2. GasGiven' = gas["user"] + 3 + Cardinality(LandedIn(call))
      BY <1>3, <2>1, <2>2 DEF GasBeside
    <3> QED
      BY <1>2, <1>3, <3>1, <3>2 DEF GasBeside, GiftsInv
  <2>4. GasGiven' >= 4
    BY <1>2, <2>3
  <2>5. ASSUME NEW c \in CallIds
        PROVE  GiftOK(c)'
    BY <1>1, <2>1, <2>4 DEF GiftOK
  <2>6. \A h \in gifts' : call'[h[1]].by = "user" /\ call'[h[1]].pc # "idle"
    BY <2>1 DEF GiftsInv
  <2>7. GasGiven' >= 1
    BY <1>2, <2>3
  <2> QED
    BY <2>5, <2>6, <2>7 DEF GiftsInv
<1>16. CASE UNCHANGED K!vars
  <2>1. call' = call /\ gas' = gas /\ gifts' = gifts
    BY <1>16 DEF K!vars
  <2>2. GasGiven' = GasGiven
    BY <1>3, <2>1
  <2> QED
    BY <2>1, <2>2 DEF GiftsInv, GiftOK
<1> QED
  BY <1>4, <1>5, <1>6, <1>7, <1>8, <1>9, <1>10, <1>13, <1>14, <1>15, <1>16 DEF K!Next, CallIds

(* Two overlapping requests, and the call that none of them is, send each    *)
(* transaction once, get it through in two attempts, and are given gas once. *)
THEOREM CallsLandAndAreGivenGasOnce ==
    ASSUME IsFiniteSet(Requests), Cardinality(Requests) <= 2
    PROVE  Spec => []CallsLandOnce
<1>1. Init => CallsInv /\ GiftsInv
  BY CallsStart, GiftsStart
<1>2. CallsInv /\ GiftsInv /\ [Next]_vars => (CallsInv /\ GiftsInv)'
  BY CallsStep, CallsKept, GiftsKept
<1>3. CallsInv /\ GiftsInv => CallsLandOnce
  BY DEF CallsInv, CallOK, GiftsInv, GiftOK, CallsLandOnce, K!LandsOnce, K!RetrySuffices,
         K!GivenOnce, CallIds
<1> QED
  BY <1>1, <1>2, <1>3, PTL DEF Spec

(***************************************************************************)
(* The collection of fees.                                                 *)
(***************************************************************************)

(* A step of the system is one of the fees, or leaves them alone.           *)
LEMMA FeesStep == [Next]_vars => [F!Next]_(F!vars)
  BY DEF Next, Others, feesVars, vars, F!vars

(* What a collection has been paid and has not logged, of the collections k. *)
UnloggedFees(k) == [r \in Requests |-> IF k[r].pc = "log" THEN k[r].paid ELSE 0]

(* The sum of the instance is the sum of the library.                       *)
LEMMA FeesSum ==
    ASSUME NEW f, NEW D
    PROVE  F!SumFunctionOnSet(f, D) = SumFunctionOnSet(f, D)
  BY DEF F!SumFunctionOnSet, SumFunctionOnSet, F!FoldFunctionOnSet, FoldFunctionOnSet,
         F!MapThenFoldSet, MapThenFoldSet

(* What the collections have paid and not logged, as a sum over them.       *)
LEMMA FeesUnlogged == F!AllUnlogged = SumFunctionOnSet(UnloggedFees(feeRun), Requests)
<1>1. [r \in Requests |-> F!Unlogged(r)] = UnloggedFees(feeRun)
  BY DEF F!Unlogged, UnloggedFees
<1>2. F!AllUnlogged = F!SumFunctionOnSet(UnloggedFees(feeRun), Requests)
  BY <1>1 DEF F!AllUnlogged
<1> QED
  BY <1>2, FeesSum

Collection == [pc : {"idle", "call", "log", "ok", "nothing"}, by : {"none", "creator", "event"},
               seen : Nat, paid : Nat]

FeesShape ==
    /\ trading \in BOOLEAN
    /\ fees \in Nat /\ operator \in Nat /\ feeLogs \in Nat /\ missed \in Int
    /\ feeRun \in [Requests -> Collection]

(* What a collection k saw is still there or was paid, and a handler of the  *)
(* resolution, which runs on a market that takes no trades, leaves nothing.  *)
CollectionOK(k, closedNow, left, paid) ==
    /\ k.by = "event" /\ k.pc # "idle" => closedNow
    /\ k.by = "event" /\ k.pc \in {"log", "ok", "nothing"} => left = 0
    /\ k.pc = "call" => k.seen <= left + paid
    /\ k.pc \in {"log", "ok", "nothing"} => k.seen <= paid

FeesInv ==
    /\ FeesShape
    /\ operator = feeLogs + missed + SumFunctionOnSet(UnloggedFees(feeRun), Requests)
    /\ \A r \in Requests : CollectionOK(feeRun[r], ~trading, fees, operator)

(* Nothing is collected at the start.                                       *)
LEMMA FeesStart == IsFiniteSet(Requests) /\ Init => FeesInv
<1> SUFFICES ASSUME IsFiniteSet(Requests), F!Init
             PROVE  FeesInv
  BY DEF Init
<1>1. \A r \in Requests : feeRun[r] = F!Idle
  BY DEF F!Init
<1>2. F!Idle \in Collection /\ F!Idle.pc = "idle" /\ F!Idle.by = "none"
  BY DEF F!Idle, Collection
<1>3. feeRun = [r \in Requests |-> F!Idle]
  BY DEF F!Init
<1>4. FeesShape
  BY <1>2, <1>3 DEF F!Init, FeesShape
<1>5. SumFunctionOnSet(UnloggedFees(feeRun), Requests) = 0
  <2>1. \A r \in Requests : UnloggedFees(feeRun)[r] = 0
    BY <1>1, <1>2 DEF UnloggedFees
  <2> QED
    BY <2>1, SumOfZeros
<1>6. \A r \in Requests : CollectionOK(feeRun[r], ~trading, fees, operator)
  BY <1>1, <1>2 DEF CollectionOK
<1>7. operator = 0 /\ feeLogs = 0 /\ missed = 0
  BY DEF F!Init
<1> QED
  BY <1>4, <1>5, <1>6, <1>7 DEF FeesInv

(* The sum after one collection changed.                                    *)
LEMMA OneCollection ==
    ASSUME IsFiniteSet(Requests), NEW k \in [Requests -> Collection], NEW r \in Requests,
           NEW new \in Collection
    PROVE  SumFunctionOnSet(UnloggedFees([k EXCEPT ![r] = new]), Requests)
             = SumFunctionOnSet(UnloggedFees(k), Requests)
                 - (IF k[r].pc = "log" THEN k[r].paid ELSE 0)
                 + (IF new.pc = "log" THEN new.paid ELSE 0)
<1> DEFINE f == UnloggedFees(k)
           g == UnloggedFees([k EXCEPT ![r] = new])
<1>1. \A y \in Requests : f[y] \in Int
  BY DEF UnloggedFees, Collection
<1>2. \A y \in Requests \ {r} : g[y] = f[y]
  BY DEF UnloggedFees
<1>3. f[r] = (IF k[r].pc = "log" THEN k[r].paid ELSE 0)
  BY DEF UnloggedFees
<1>4. g[r] = (IF new.pc = "log" THEN new.paid ELSE 0) /\ g[r] \in Int
  BY DEF UnloggedFees, Collection
<1>5. \A y \in Requests : f[y] \in Int /\ g[y] \in Int
  BY <1>1, <1>2, <1>4
<1> HIDE DEF f, g
<1>6. SumFunctionOnSet(g, Requests) = SumFunctionOnSet(f, Requests) - f[r] + g[r]
  BY <1>2, <1>5, SumChanges
<1> QED
  BY <1>3, <1>4, <1>6 DEF f, g

(* The sum of what is not logged is a whole number.                         *)
LEMMA FeesSumType ==
    ASSUME IsFiniteSet(Requests), NEW k \in [Requests -> Collection]
    PROVE  SumFunctionOnSet(UnloggedFees(k), Requests) \in Int
<1>1. \A y \in Requests : UnloggedFees(k)[y] \in Int
  BY DEF UnloggedFees, Collection
<1> QED
  BY <1>1, SumType

(* Each step of a trade, the closing and the collections keeps the balance. *)
LEMMA FeesKept == IsFiniteSet(Requests) /\ FeesInv /\ [F!Next]_(F!vars) => FeesInv'
<1> SUFFICES ASSUME IsFiniteSet(Requests), FeesInv, [F!Next]_(F!vars)
             PROVE  FeesInv'
  OBVIOUS
<1> DEFINE total == SumFunctionOnSet(UnloggedFees(feeRun), Requests)
<1>0. FeesShape /\ operator = feeLogs + missed + total
      /\ \A r \in Requests : feeRun[r] \in Collection
                             /\ CollectionOK(feeRun[r], ~trading, fees, operator)
  BY DEF FeesInv, FeesShape
<1>t. total \in Int /\ fees \in Nat /\ operator \in Nat /\ feeLogs \in Nat /\ missed \in Int
  BY <1>0, FeesSumType DEF FeesShape
<1>1. CASE F!Earn
  <2>1. trading /\ fees' = fees + 1 /\ UNCHANGED <<trading, operator, feeLogs, feeRun, missed>>
    BY <1>1 DEF F!Earn
  <2>2. FeesShape'
    BY <1>0, <1>t, <2>1 DEF FeesShape
  <2>3. ASSUME NEW r \in Requests
        PROVE  CollectionOK(feeRun[r], ~trading, fees', operator)
    <3>1. feeRun[r].seen \in Nat
      BY <1>0 DEF Collection
    <3>2. feeRun[r].seen <= fees + operator => feeRun[r].seen <= fees' + operator
      BY <1>t, <2>1, <3>1
    <3> QED
      BY <1>0, <2>1, <3>2 DEF CollectionOK
  <2> QED
    BY <1>0, <2>1, <2>2, <2>3 DEF FeesInv
<1>2. CASE F!Close
  <2>1. ~trading' /\ UNCHANGED <<fees, operator, feeLogs, feeRun, missed>>
    BY <1>2 DEF F!Close
  <2> QED
    BY <1>0, <2>1, <1>2 DEF FeesInv, FeesShape, CollectionOK, F!Close
<1>3. CASE F!Crash
  <2>1. feeRun' = [r \in Requests |-> F!Idle] /\ UNCHANGED <<trading, fees, operator, feeLogs>>
        /\ missed' = missed + total
    BY <1>3, FeesUnlogged DEF F!Crash
  <2>2. F!Idle \in Collection /\ F!Idle.pc = "idle" /\ F!Idle.by = "none"
    BY DEF F!Idle, Collection
  <2>3. SumFunctionOnSet(UnloggedFees(feeRun'), Requests) = 0
    <3>1. \A r \in Requests : UnloggedFees(feeRun')[r] = 0
      BY <2>1, <2>2 DEF UnloggedFees
    <3> QED
      BY <3>1, SumOfZeros
  <2>4. FeesShape'
    BY <1>0, <1>t, <2>1, <2>2 DEF FeesShape
  <2>5. operator' = feeLogs' + missed' + 0
    BY <1>0, <1>t, <2>1
  <2>6. \A r \in Requests : CollectionOK(feeRun'[r], ~trading', fees', operator')
    BY <2>1, <2>2 DEF CollectionOK
  <2> QED
    BY <2>3, <2>4, <2>5, <2>6 DEF FeesInv
<1>4. ASSUME NEW r \in Requests, NEW new \in Collection, feeRun' = [feeRun EXCEPT ![r] = new],
             trading' = trading, fees' \in Nat, operator' \in Nat, feeLogs' \in Nat,
             missed' \in Int, fees' = 0 \/ fees' = fees, fees' + operator' = fees + operator,
             operator' - feeLogs' - missed' = operator - feeLogs - missed
                 - (IF feeRun[r].pc = "log" THEN feeRun[r].paid ELSE 0)
                 + (IF new.pc = "log" THEN new.paid ELSE 0),
             CollectionOK(new, ~trading, fees', operator')
      PROVE  FeesInv'
  <2>1. FeesShape'
    BY <1>0, <1>4 DEF FeesShape
  <2>2. operator' = feeLogs' + missed' + SumFunctionOnSet(UnloggedFees(feeRun'), Requests)
    <3>1. feeRun \in [Requests -> Collection] /\ feeRun' \in [Requests -> Collection]
      BY <1>0, <2>1 DEF FeesShape
    <3>2. PICK old \in Int : old = IF feeRun[r].pc = "log" THEN feeRun[r].paid ELSE 0
      BY <1>0 DEF Collection
    <3>3. PICK now \in Int : now = IF new.pc = "log" THEN new.paid ELSE 0
      BY DEF Collection
    <3>4. PICK sum \in Int : sum = SumFunctionOnSet(UnloggedFees(feeRun), Requests)
      BY <3>1, FeesSumType
    <3>5. PICK next \in Int : next = SumFunctionOnSet(UnloggedFees(feeRun'), Requests)
      BY <3>1, FeesSumType
    <3>6. next = sum - old + now
      BY <1>4, <3>1, <3>2, <3>3, <3>4, <3>5, OneCollection
    <3>7. operator = feeLogs + missed + sum
      BY <1>0, <3>4
    <3>8. operator' - feeLogs' - missed' = operator - feeLogs - missed - old + now
      BY <1>4, <3>2, <3>3
    <3>9. operator' = feeLogs' + missed' + next
      BY <1>t, <1>4, <3>6, <3>7, <3>8
    <3> QED
      BY <3>5, <3>9
  <2>3. ASSUME NEW q \in Requests
        PROVE  CollectionOK(feeRun'[q], ~trading', fees', operator')
    <3>1. CASE q = r
      BY <1>0, <1>4, <3>1 DEF FeesShape
    <3>2. CASE q # r
      <4>1. feeRun'[q] = feeRun[q] /\ feeRun[q].seen \in Nat
            /\ CollectionOK(feeRun[q], ~trading, fees, operator)
        BY <1>0, <1>4, <3>2 DEF Collection
      <4>2. feeRun[q].seen <= operator => feeRun[q].seen <= operator'
        BY <1>t, <1>4, <4>1
      <4> QED
        BY <1>4, <4>1, <4>2 DEF CollectionOK
    <3> QED
      BY <3>1, <3>2
  <2> QED
    BY <2>1, <2>2, <2>3 DEF FeesInv
<1>5. ASSUME NEW r \in Requests, NEW by \in {"creator", "event"}, F!Begin(r, by)
      PROVE  FeesInv'
  <2> DEFINE new == [F!Idle EXCEPT !.pc = "call", !.by = by, !.seen = fees]
  <2>1. feeRun[r].pc # "log" /\ (by = "event" => ~trading) /\ feeRun' = [feeRun EXCEPT ![r] = new]
        /\ UNCHANGED <<trading, fees, operator, feeLogs, missed>>
    BY <1>5 DEF F!Begin
  <2>2. new \in Collection /\ new.pc = "call" /\ new.by = by /\ new.seen = fees
    <3>1. F!Idle \in Collection
      BY DEF F!Idle, Collection
    <3> QED
      BY <1>t, <3>1 DEF Collection
  <2> HIDE DEF new
  <2>3. fees <= fees + operator
    BY <1>t
  <2>4. CollectionOK(new, ~trading, fees', operator')
    BY <2>1, <2>2, <2>3 DEF CollectionOK
  <2>5. operator' - feeLogs' - missed' = operator - feeLogs - missed - 0 + 0
    BY <1>t, <2>1
  <2> QED
    BY <1>t, <1>4, <2>1, <2>2, <2>4, <2>5
<1>6. ASSUME NEW r \in Requests, F!Withdraw(r)
      PROVE  FeesInv'
  <2> DEFINE new == [feeRun[r] EXCEPT !.pc = "log", !.paid = fees]
  <2>1. feeRun[r].pc = "call" /\ feeRun' = [feeRun EXCEPT ![r] = new] /\ fees' = 0
        /\ operator' = operator + fees /\ UNCHANGED <<trading, feeLogs, missed>>
    BY <1>6 DEF F!Withdraw
  <2>2. new \in Collection /\ new.pc = "log" /\ new.by = feeRun[r].by
        /\ new.seen = feeRun[r].seen /\ new.paid = fees
    BY <1>0, <1>t DEF Collection
  <2> HIDE DEF new
  <2>3. feeRun[r].seen \in Nat /\ feeRun[r].seen <= fees + operator
        /\ (feeRun[r].by = "event" => ~trading)
    BY <1>0, <2>1 DEF Collection, CollectionOK
  <2>4. CollectionOK(new, ~trading, fees', operator')
    <3>1. new.seen <= operator'
      BY <1>t, <2>1, <2>2, <2>3
    <3> QED
      BY <2>1, <2>2, <2>3, <3>1 DEF CollectionOK
  <2>5. operator' - feeLogs' - missed' = operator - feeLogs - missed - 0 + fees
    BY <1>t, <2>1
  <2>6. fees' \in Nat /\ operator' \in Nat /\ fees' + operator' = fees + operator
    BY <1>t, <2>1
  <2> QED
    BY <1>t, <1>4, <2>1, <2>2, <2>4, <2>5, <2>6
<1>7. ASSUME NEW r \in Requests, F!LogFees(r)
      PROVE  FeesInv'
  <2> DEFINE pc == IF feeRun[r].paid = 0 THEN "nothing" ELSE "ok"
             new == [feeRun[r] EXCEPT !.pc = pc]
  <2>1. feeRun[r].pc = "log" /\ feeRun' = [feeRun EXCEPT ![r] = new]
        /\ feeLogs' = feeLogs + feeRun[r].paid /\ UNCHANGED <<trading, fees, operator, missed>>
    BY <1>7 DEF F!LogFees, F!Collected
  <2>2. pc \in {"nothing", "ok"}
    OBVIOUS
  <2> HIDE DEF pc
  <2>3. new \in Collection /\ new.pc = pc /\ new.by = feeRun[r].by /\ new.seen = feeRun[r].seen
    BY <1>0, <2>2 DEF Collection
  <2> HIDE DEF new
  <2>4. CollectionOK(new, ~trading, fees', operator')
    BY <1>0, <2>1, <2>2, <2>3 DEF CollectionOK
  <2>5. feeRun[r].paid \in Nat
    BY <1>0 DEF Collection
  <2>6. operator' - feeLogs' - missed' = operator - feeLogs - missed - feeRun[r].paid + 0
        /\ feeLogs' \in Nat
    BY <1>t, <2>1, <2>5
  <2> QED
    BY <1>t, <1>4, <2>1, <2>2, <2>3, <2>4, <2>6
<1>8. ASSUME NEW r \in Requests, F!Fail(r)
      PROVE  FeesInv'
  <2> DEFINE old == IF feeRun[r].pc = "log" THEN feeRun[r].paid ELSE 0
  <2>1. feeRun' = [feeRun EXCEPT ![r] = F!Idle] /\ missed' = missed + old
        /\ UNCHANGED <<trading, fees, operator, feeLogs>>
    BY <1>8 DEF F!Fail, F!Unlogged
  <2>2. F!Idle \in Collection /\ F!Idle.pc = "idle" /\ F!Idle.by = "none"
    BY DEF F!Idle, Collection
  <2>3. CollectionOK(F!Idle, ~trading, fees', operator')
    BY <2>2 DEF CollectionOK
  <2>4. old \in Int
    BY <1>0 DEF Collection
  <2>5. operator' - feeLogs' - missed' = operator - feeLogs - missed - old + 0
        /\ missed' \in Int
    BY <1>t, <2>1, <2>4
  <2>6. operator' - feeLogs' - missed' = operator - feeLogs - missed
                 - (IF feeRun[r].pc = "log" THEN feeRun[r].paid ELSE 0)
                 + (IF F!Idle.pc = "log" THEN F!Idle.paid ELSE 0)
    BY <2>2, <2>5
  <2> QED
    BY <1>t, <1>4, <2>1, <2>2, <2>3, <2>5, <2>6
<1>9. CASE UNCHANGED F!vars
  BY <1>0, <1>9 DEF F!vars, FeesInv, FeesShape
<1> QED
  BY <1>1, <1>2, <1>3, <1>5, <1>6, <1>7, <1>8, <1>9 DEF F!Next

(* What overlapping collections are paid is logged once, and the handler of  *)
(* the resolution leaves no fee behind.                                     *)
LEMMA FeesAreRight ==
    IsFiniteSet(Requests) /\ FeesInv => F!FeesAreLogged /\ F!NothingLeft
<1> SUFFICES ASSUME FeesInv
             PROVE  F!FeesAreLogged /\ F!NothingLeft
  OBVIOUS
<1>1. F!FeesAreLogged
  BY FeesUnlogged DEF FeesInv, F!FeesAreLogged
<1>2. F!NothingLeft
  BY DEF FeesInv, CollectionOK, F!NothingLeft
<1> QED
  BY <1>1, <1>2

(***************************************************************************)
(* The wallets, the faucet and the charges.                                *)
(***************************************************************************)

(* A step of the system is one of the wallets, or leaves them alone.        *)
LEMMA WalletsStep == [Next]_vars => [W!Next]_(W!vars)
  BY DEF Next, Others, walletsVars, vars, W!vars

(* A request, and what it does next by its kind.                            *)
WalletRequest ==
    [pc : {"idle", "find", "owns", "insert", "inUse", "connect", "update",
           "faucet", "give", "convert", "balance", "refill", "transfer", "log"},
     kind : {"wallet", "connect", "faucet", "charge"}, user : Users \union {"none"},
     address : W!Address \union {W!NoAddress}, force : BOOLEAN,
     amount : Nat, need : Int, alone : BOOLEAN]

Stages(kind) ==
    CASE kind = "wallet" -> {"find", "owns", "insert"}
      [] kind = "connect" -> {"find", "inUse", "connect", "update"}
      [] kind = "faucet" -> {"find", "owns", "insert", "faucet", "give", "convert", "log"}
      [] kind = "charge" -> {"find", "owns", "insert", "balance", "refill", "transfer", "log"}

RequestOK(q) ==
    /\ q \in WalletRequest
    /\ q.pc # "idle" => q.user \in Users /\ q.pc \in Stages(q.kind)
    /\ q.pc # "idle" /\ q.kind = "connect" => q.address \in W!Address

WalletsShape ==
    /\ DOMAIN walletReq = Requests /\ walletReq = [r \in Requests |-> walletReq[r]]
    /\ \A r \in Requests : RequestOK(walletReq[r])
    /\ wallets \subseteq [user : Users, address : W!Address]
    /\ received \in [Users -> Int] /\ logged \in [Users -> Int] /\ lost \in [Users -> Int]
    /\ reserve \in Int /\ native \in Int /\ clock \in Nat
    /\ times \in [Users -> Int] /\ grants \in [Users -> Seq(Nat)]

(* Requests that would spoil each other are not alone.                      *)
PairsOK == \A r, s \in Requests :
    /\ r # s /\ walletReq[r].pc # "idle" /\ walletReq[s].pc # "idle"
    /\ walletReq[r].kind = walletReq[s].kind /\ walletReq[r].kind \in {"connect", "charge"}
    => ~walletReq[r].alone /\ ~walletReq[s].alone

(* A lone request to connect has an address no row holds, as it is written.  *)
ConnectsOK ==
    /\ \A v, w \in wallets :
          v # w /\ v.address.account = w.address.account => v.address.account \in forced
    /\ \A r \in Requests : walletReq[r].pc = "connect" /\ walletReq[r].alone =>
          \A w \in wallets : w.address # walletReq[r].address

(* What a lone charge has seen of the operator's balance still holds.       *)
ChargesOK == \A r \in Requests :
    /\ walletReq[r].pc = "refill" /\ walletReq[r].alone =>
          /\ reserve < walletReq[r].amount
          /\ walletReq[r].need = 5 * (walletReq[r].amount - reserve)
    /\ walletReq[r].pc = "transfer" /\ walletReq[r].alone => walletReq[r].amount <= reserve

(* The times of a user's grants against the time the faucet remembers.      *)
Draws(r, u) == walletReq[r].kind = "faucet" /\ walletReq[r].user = u
Given(u) == Len(grants[u]) > 0
LastGrant(u) == grants[u][Len(grants[u])]
FaucetOK(u) ==
    /\ \A r, s \in Requests :
          Draws(r, u) /\ walletReq[r].pc # "idle" /\ Draws(s, u) /\ walletReq[s].pc # "idle" => r = s
    /\ \A i \in 1 .. Len(grants[u]) - 1 : grants[u][i + 1] - grants[u][i] >= 2
    /\ Given(u) => LastGrant(u) <= clock
    /\ Given(u) /\ (\A r \in Requests : Draws(r, u) => walletReq[r].pc \notin {"convert", "log"})
          => LastGrant(u) <= times[u]
    /\ \A r \in Requests : Draws(r, u) /\ walletReq[r].pc = "give" /\ Given(u)
          => LastGrant(u) + 2 <= clock

(* What the requests k have given the user u and not logged.                *)
Part(q, u) == IF q.pc \in {"convert", "log"} /\ q.user = u THEN q.amount ELSE 0
UnloggedParts(k, u) == [r \in Requests |-> Part(k[r], u)]
LogsOK == \A u \in Users :
    received[u] = logged[u] + lost[u] + SumFunctionOnSet(UnloggedParts(walletReq, u), Requests)

WalletsInv ==
    /\ WalletsShape
    /\ PairsOK /\ ConnectsOK /\ ChargesOK
    /\ \A u \in Users \ lapse : FaucetOK(u)
    /\ LogsOK

-----------------------------------------------------------------------------

(* A request that is none fits, and has given nothing.                      *)
LEMMA NoRequestOK ==
    /\ RequestOK(W!NoRequest) /\ W!NoRequest.pc = "idle" /\ W!NoRequest.kind = "wallet"
    /\ \A u : Part(W!NoRequest, u) = 0
<1>1. W!NoRequest \in WalletRequest
  BY DEF W!NoRequest, WalletRequest
<1>2. W!NoRequest.pc = "idle" /\ W!NoRequest.kind = "wallet"
  BY DEF W!NoRequest
<1> QED
  BY <1>1, <1>2 DEF RequestOK, Part

(* There are no wallets and no requests at the start.                       *)
LEMMA WalletsStart == IsFiniteSet(Requests) /\ Init => WalletsInv
<1> SUFFICES ASSUME IsFiniteSet(Requests), W!Init
             PROVE  WalletsInv
  BY DEF Init
<1>1. walletReq = [r \in Requests |-> W!NoRequest] /\ wallets = {} /\ reserve = 3 /\ native = 7
      /\ clock = 0 /\ lapse = {} /\ forced = {}
  BY DEF W!Init
<1>2. logged = [u \in Users |-> 0] /\ received = logged /\ lost = logged
      /\ times = [u \in Users |-> -1] /\ grants = [u \in Users |-> <<>>]
  BY DEF W!Init, W!Never
<1>3. \A r \in Requests : walletReq[r] = W!NoRequest
  BY <1>1
<1>4. WalletsShape
  <2>1. \A r \in Requests : RequestOK(walletReq[r])
    BY <1>3, NoRequestOK
  <2>2. received \in [Users -> Int] /\ logged \in [Users -> Int] /\ lost \in [Users -> Int]
        /\ times \in [Users -> Int] /\ grants \in [Users -> Seq(Nat)]
    BY <1>2
  <2> QED
    BY <1>1, <2>1, <2>2 DEF WalletsShape
<1>5. PairsOK /\ ConnectsOK /\ ChargesOK
  BY <1>1, <1>3, NoRequestOK DEF PairsOK, ConnectsOK, ChargesOK
<1>6. ASSUME NEW u \in Users
      PROVE  FaucetOK(u)
  <2>1. grants[u] = <<>>
    BY <1>2
  <2>2. Len(grants[u]) = 0
    BY <2>1
  <2> QED
    BY <1>3, <2>2, NoRequestOK DEF FaucetOK, Given, Draws
<1>7. LogsOK
  <2>1. ASSUME NEW u \in Users
        PROVE  SumFunctionOnSet(UnloggedParts(walletReq, u), Requests) = 0
    <3>1. \A r \in Requests : UnloggedParts(walletReq, u)[r] = 0
      BY <1>3, NoRequestOK DEF UnloggedParts
    <3> QED
      BY <3>1, SumOfZeros
  <2> QED
    BY <1>2, <2>1 DEF LogsOK
<1> QED
  BY <1>4, <1>5, <1>6, <1>7 DEF WalletsInv

-----------------------------------------------------------------------------

(* The requests k and l are the same but for r.                             *)
Replaces(k, l, r) ==
    /\ \A i \in Requests : RequestOK(k[i])
    /\ RequestOK(l[r])
    /\ \A i \in Requests \ {r} : l[i] = k[i]

(* The sum of the requests' parts once one request is another.              *)
LEMMA OnePart ==
    ASSUME IsFiniteSet(Requests), NEW k, NEW l, NEW r \in Requests, NEW u, Replaces(k, l, r)
    PROVE  /\ SumFunctionOnSet(UnloggedParts(k, u), Requests) \in Int
           /\ Part(k[r], u) \in Int /\ Part(l[r], u) \in Int
           /\ SumFunctionOnSet(UnloggedParts(l, u), Requests)
                = SumFunctionOnSet(UnloggedParts(k, u), Requests) - Part(k[r], u) + Part(l[r], u)
<1> DEFINE f == UnloggedParts(k, u)
           g == UnloggedParts(l, u)
<1>1. ASSUME NEW q, RequestOK(q)
      PROVE  Part(q, u) \in Int
  <2>1. q \in WalletRequest
    BY <1>1 DEF RequestOK
  <2>2. q.amount \in Int
    BY <2>1 DEF WalletRequest
  <2> QED
    BY <2>2 DEF Part
<1>2. \A i \in Requests : f[i] = Part(k[i], u) /\ f[i] \in Int
  BY <1>1 DEF UnloggedParts, Replaces
<1>3. g[r] = Part(l[r], u) /\ g[r] \in Int
  BY <1>1 DEF UnloggedParts, Replaces
<1>4. \A i \in Requests \ {r} : g[i] = f[i]
  BY DEF UnloggedParts, Replaces
<1>5. \A i \in Requests : f[i] \in Int /\ g[i] \in Int
  BY <1>2, <1>3, <1>4
<1> HIDE DEF f, g
<1>6. SumFunctionOnSet(g, Requests) = SumFunctionOnSet(f, Requests) - f[r] + g[r]
  BY <1>4, <1>5, SumChanges
<1>7. SumFunctionOnSet(f, Requests) \in Int
  BY <1>5, SumType
<1> QED
  BY <1>2, <1>3, <1>6, <1>7 DEF f, g

(* A request r that becomes q goes on with what it was, or is over.          *)
GoesOn(old, q) ==
    q.pc # "idle" => /\ q.kind = old.kind /\ q.user = old.user /\ q.address = old.address
                     /\ q.amount = old.amount /\ q.alone = old.alone /\ old.pc # "idle"

Becomes(r, q) == walletReq' = [walletReq EXCEPT ![r] = q] /\ RequestOK(q) /\ GoesOn(walletReq[r], q)

(* A request becomes another; the others stay what they were.               *)
LEMMA ShapeMoves ==
    ASSUME WalletsShape, NEW r \in Requests, NEW q, Becomes(r, q)
    PROVE  /\ DOMAIN walletReq' = Requests
           /\ walletReq' = [i \in Requests |-> walletReq'[i]]
           /\ \A i \in Requests : RequestOK(walletReq'[i])
           /\ walletReq'[r] = q /\ \A i \in Requests \ {r} : walletReq'[i] = walletReq[i]
  BY DEF WalletsShape, Becomes

(* What moves on is no more alone than it was.                              *)
LEMMA PairsMove ==
    ASSUME WalletsShape, PairsOK, NEW r \in Requests, NEW q, Becomes(r, q)
    PROVE  PairsOK'
<1>1. walletReq'[r] = q /\ \A i \in Requests \ {r} : walletReq'[i] = walletReq[i]
  BY ShapeMoves
<1>2. \A i \in Requests : walletReq'[i].pc # "idle" =>
          walletReq[i].pc # "idle" /\ walletReq'[i].kind = walletReq[i].kind
          /\ walletReq'[i].alone = walletReq[i].alone
  BY <1>1 DEF Becomes, GoesOn
<1> QED
  BY <1>2 DEF PairsOK

(* A request may go on to connect an address that no row holds.             *)
LEMMA ConnectsMove ==
    ASSUME WalletsShape, ConnectsOK, NEW r \in Requests, NEW q, Becomes(r, q),
           UNCHANGED <<wallets, forced>>,
           q.pc = "connect" /\ q.alone => \A w \in wallets : w.address # q.address
    PROVE  ConnectsOK'
<1>1. walletReq'[r] = q /\ \A i \in Requests \ {r} : walletReq'[i] = walletReq[i]
  BY ShapeMoves
<1> QED
  BY <1>1 DEF ConnectsOK

(* Requests elsewhere than at the operator's balance leave it alone.        *)
LEMMA ChargesMove ==
    ASSUME WalletsShape, ChargesOK, NEW r \in Requests, NEW q, Becomes(r, q),
           UNCHANGED reserve, q.pc \notin {"refill", "transfer"}
    PROVE  ChargesOK'
<1>1. walletReq'[r] = q /\ \A i \in Requests \ {r} : walletReq'[i] = walletReq[i]
  BY ShapeMoves
<1> QED
  BY <1>1 DEF ChargesOK

(* A request that gives nothing leaves the delay of the faucet alone.       *)
LEMMA FaucetMoves ==
    ASSUME WalletsShape, NEW u \in Users, FaucetOK(u), NEW r \in Requests, NEW q, Becomes(r, q),
           grants'[u] = grants[u], times'[u] = times[u], clock' = clock,
           Draws(r, u) /\ walletReq[r].pc \in {"convert", "log"} => q.pc \in {"convert", "log"},
           Draws(r, u) /\ q.pc = "give" /\ Given(u) => LastGrant(u) + 2 <= clock
    PROVE  FaucetOK(u)'
<1>1. walletReq'[r] = q /\ \A i \in Requests \ {r} : walletReq'[i] = walletReq[i]
  BY ShapeMoves
<1>2. Given(u)' = Given(u) /\ LastGrant(u)' = LastGrant(u)
  BY DEF Given, LastGrant
<1>3. \A i \in Requests : walletReq'[i].pc # "idle" =>
          walletReq[i].pc # "idle" /\ Draws(i, u)' = Draws(i, u)
  BY <1>1 DEF Becomes, GoesOn, Draws
<1>4. \A i, j \in Requests :
          Draws(i, u)' /\ walletReq'[i].pc # "idle" /\ Draws(j, u)' /\ walletReq'[j].pc # "idle"
              => i = j
  BY <1>3 DEF FaucetOK
<1>5. ASSUME Given(u), \A i \in Requests : Draws(i, u)' => walletReq'[i].pc \notin {"convert", "log"}
      PROVE  LastGrant(u) <= times[u]
  <2>1. ASSUME NEW i \in Requests, Draws(i, u), walletReq[i].pc \in {"convert", "log"}
        PROVE  FALSE
    <3>1. CASE i = r
      <4>1. q.pc \in {"convert", "log"}
        BY <2>1, <3>1
      <4> QED
        BY <1>1, <1>3, <1>5, <2>1, <3>1, <4>1
    <3>2. CASE i # r
      BY <1>1, <1>5, <2>1, <3>2 DEF Draws
    <3> QED
      BY <3>1, <3>2
  <2> QED
    BY <1>5, <2>1 DEF FaucetOK
<1>6. ASSUME NEW i \in Requests, Draws(i, u)', walletReq'[i].pc = "give", Given(u)
      PROVE  LastGrant(u) + 2 <= clock
  <2>1. Draws(i, u)
    BY <1>3, <1>6
  <2>2. CASE i = r
    BY <1>1, <1>6, <2>1, <2>2
  <2>3. CASE i # r
    BY <1>1, <1>6, <2>1, <2>3 DEF FaucetOK
  <2> QED
    BY <2>2, <2>3
<1> QED
  BY <1>2, <1>4, <1>5, <1>6 DEF FaucetOK

(* Received and logged stay in balance when a request answers for the       *)
(* difference.                                                              *)
LEMMA LogsMove ==
    ASSUME IsFiniteSet(Requests), WalletsShape, LogsOK, NEW r \in Requests, NEW q, Becomes(r, q),
           WalletsShape', \A u \in Users :
               received'[u] - logged'[u] - lost'[u] - Part(q, u)
                   = received[u] - logged[u] - lost[u] - Part(walletReq[r], u)
    PROVE  LogsOK'
<1>1. ASSUME NEW u \in Users
      PROVE  received'[u] = logged'[u] + lost'[u]
                                + SumFunctionOnSet(UnloggedParts(walletReq', u), Requests)
  <2>1. \A i \in Requests : RequestOK(walletReq[i])
    BY DEF WalletsShape
  <2>2. walletReq'[r] = q /\ RequestOK(q) /\ \A i \in Requests \ {r} : walletReq'[i] = walletReq[i]
    BY ShapeMoves DEF Becomes
  <2>3. PICK old \in Int, p \in Int, n \in Int :
            /\ old = SumFunctionOnSet(UnloggedParts(walletReq, u), Requests)
            /\ p = Part(walletReq[r], u) /\ n = Part(q, u)
            /\ SumFunctionOnSet(UnloggedParts(walletReq', u), Requests) = old - p + n
    <3>1. PICK k, l : k = walletReq /\ l = walletReq'
      OBVIOUS
    <3>2. Replaces(k, l, r)
      BY <2>1, <2>2, <3>1 DEF Replaces
    <3>3. /\ SumFunctionOnSet(UnloggedParts(k, u), Requests) \in Int
          /\ Part(k[r], u) \in Int /\ Part(l[r], u) \in Int
          /\ SumFunctionOnSet(UnloggedParts(l, u), Requests)
               = SumFunctionOnSet(UnloggedParts(k, u), Requests) - Part(k[r], u) + Part(l[r], u)
      BY <3>2, OnePart
    <3>4. l[r] = q
      BY <2>2, <3>1
    <3> QED
      BY <3>1, <3>3, <3>4
  <2>4. received[u] = logged[u] + lost[u] + old
    BY <2>3 DEF LogsOK
  <2>5. received'[u] - logged'[u] - lost'[u] - n = received[u] - logged[u] - lost[u] - p
    BY <2>3
  <2>6. /\ received[u] \in Int /\ logged[u] \in Int /\ lost[u] \in Int
        /\ received'[u] \in Int /\ logged'[u] \in Int /\ lost'[u] \in Int
    BY DEF WalletsShape
  <2>7. received'[u] = logged'[u] + lost'[u] + (old - p + n)
    BY <2>3, <2>4, <2>5, <2>6
  <2> QED
    BY <2>3, <2>7
<1> QED
  BY <1>1 DEF LogsOK

(* A step that only moves a request on.                                     *)
LEMMA Moves ==
    ASSUME IsFiniteSet(Requests), WalletsInv, NEW r \in Requests, NEW q, Becomes(r, q),
           UNCHANGED <<wallets, logged, reserve, native, received, times, clock, grants,
                       lapse, lost, forced>>,
           walletReq[r].pc \notin {"convert", "log"} \/ q.pc = "log",
           q.pc \in {"convert", "log"} => walletReq[r].pc \in {"convert", "log"},
           q.pc = "give" => \A u \in Users \ lapse :
               Draws(r, u) /\ Given(u) => LastGrant(u) + 2 <= clock,
           q.pc = "connect" /\ q.alone => \A w \in wallets : w.address # q.address,
           q.pc \notin {"refill", "transfer"} \/ ChargesOK'
    PROVE  WalletsInv'
<1>1. WalletsShape /\ PairsOK /\ ConnectsOK /\ ChargesOK /\ LogsOK
      /\ \A u \in Users \ lapse : FaucetOK(u)
  BY DEF WalletsInv
<1>2. WalletsShape'
  BY <1>1, ShapeMoves DEF WalletsShape
<1>3. PairsOK' /\ ConnectsOK' /\ ChargesOK'
  BY <1>1, PairsMove, ConnectsMove, ChargesMove
<1>4. ASSUME NEW u \in Users \ lapse
      PROVE  FaucetOK(u)'
  <2>1. Draws(r, u) /\ walletReq[r].pc \in {"convert", "log"} => q.pc \in {"convert", "log"}
    OBVIOUS
  <2>2. Draws(r, u) /\ q.pc = "give" /\ Given(u) => LastGrant(u) + 2 <= clock
    OBVIOUS
  <2>3. FaucetOK(u)
    BY <1>1
  <2> QED
    BY <1>1, <2>1, <2>2, <2>3, FaucetMoves
<1>5. \A u \in Users : Part(q, u) = Part(walletReq[r], u)
  BY DEF Part, Becomes, GoesOn
<1>6. LogsOK'
  <2>1. \A u \in Users : received'[u] - logged'[u] - lost'[u] - Part(q, u)
                             = received[u] - logged[u] - lost[u] - Part(walletReq[r], u)
    BY <1>5
  <2> QED
    BY <1>1, <1>2, <2>1, LogsMove
<1> QED
  BY <1>2, <1>3, <1>4, <1>6 DEF WalletsInv

(* Goto(r, pc) as a move: to the next stage of the request, or to its end.   *)
LEMMA Goes ==
    ASSUME WalletsShape, NEW r \in Requests, NEW pc, W!Goto(r, pc), walletReq[r].pc # "idle",
           pc = "idle" \/ pc \in Stages(walletReq[r].kind)
    PROVE  \E q : /\ Becomes(r, q) /\ q.pc = pc
                  /\ pc # "idle" => q = [walletReq[r] EXCEPT !.pc = pc]
                  /\ pc = "idle" => q = W!NoRequest
<1>1. RequestOK(walletReq[r])
  BY DEF WalletsShape
<1>2. CASE pc = "idle"
  <2>1. walletReq' = [walletReq EXCEPT ![r] = W!NoRequest]
    BY <1>2 DEF W!Goto
  <2> QED
    BY <1>2, <2>1, NoRequestOK DEF Becomes, GoesOn
<1>3. CASE pc # "idle"
  <2> DEFINE q == [walletReq[r] EXCEPT !.pc = pc]
  <2>1. walletReq' = [walletReq EXCEPT ![r] = q]
    BY <1>3 DEF W!Goto
  <2>2. pc \in {"find", "owns", "insert", "inUse", "connect", "update",
           "faucet", "give", "convert", "balance", "refill", "transfer", "log"}
    BY <1>1, <1>3 DEF Stages, RequestOK, WalletRequest
  <2>3. q \in WalletRequest /\ q.pc = pc /\ q.kind = walletReq[r].kind
        /\ q.user = walletReq[r].user /\ q.address = walletReq[r].address
        /\ q.amount = walletReq[r].amount /\ q.alone = walletReq[r].alone
    BY <1>1, <2>2 DEF RequestOK, WalletRequest
  <2>4. walletReq[r].user \in Users
        /\ (walletReq[r].kind = "connect" => walletReq[r].address \in W!Address)
    BY <1>1 DEF RequestOK
  <2> HIDE DEF q
  <2>5. RequestOK(q)
    BY <1>3, <2>3, <2>4 DEF RequestOK
  <2>6. Becomes(r, q)
    BY <2>1, <2>3, <2>5 DEF Becomes, GoesOn
  <2> QED
    BY <1>3, <2>3, <2>6 DEF q
<1> QED
  BY <1>2, <1>3

-----------------------------------------------------------------------------

(* The steps that look something up, and nothing else, keep the invariant.  *)
LEMMA LookingUpKeeps ==
    ASSUME IsFiniteSet(Requests), WalletsInv, NEW r \in Requests,
           \/ W!FindWallet(r) \/ W!AlreadyOwns(r) \/ W!AddressInUse(r) \/ W!Convert(r)
    PROVE  WalletsInv'
<1>1. WalletsShape /\ RequestOK(walletReq[r])
  BY DEF WalletsInv, WalletsShape
<1>2. UNCHANGED <<wallets, logged, reserve, native, received, times, clock, grants, lapse, lost,
                  forced>>
  BY DEF W!FindWallet, W!AlreadyOwns, W!AddressInUse, W!Convert, W!funds, W!faucet
<1>3. CASE W!FindWallet(r)
  <2>1. PICK pc \in {"inUse", "update", "idle", "owns", "faucet", "balance"} :
            /\ W!Goto(r, pc) /\ walletReq[r].pc = "find"
            /\ pc = "idle" \/ pc \in Stages(walletReq[r].kind)
    BY <1>1, <1>3 DEF W!FindWallet, W!At, W!After, Stages, RequestOK, WalletRequest
  <2>2. PICK q : Becomes(r, q) /\ q.pc = pc
    BY <1>1, <2>1, Goes
  <2> QED
    BY <1>2, <2>1, <2>2, Moves
<1>4. CASE W!AlreadyOwns(r)
  <2>1. PICK pc \in {"insert", "idle"} :
            /\ W!Goto(r, pc) /\ walletReq[r].pc = "owns"
            /\ pc = "idle" \/ pc \in Stages(walletReq[r].kind)
    BY <1>1, <1>4 DEF W!AlreadyOwns, W!At, Stages, RequestOK, WalletRequest
  <2>2. PICK q : Becomes(r, q) /\ q.pc = pc
    BY <1>1, <2>1, Goes
  <2> QED
    BY <1>2, <2>1, <2>2, Moves
<1>5. CASE W!AddressInUse(r)
  <2>1. PICK pc \in {"connect", "idle"} :
            /\ W!Goto(r, pc) /\ walletReq[r].pc = "inUse"
            /\ pc = "idle" \/ pc \in Stages(walletReq[r].kind)
            /\ pc = "connect" => \A w \in wallets : w.address # walletReq[r].address
    BY <1>1, <1>5 DEF W!AddressInUse, W!InUse, W!At, Stages, RequestOK, WalletRequest
  <2>2. PICK q : Becomes(r, q) /\ q.pc = pc
    BY <1>1, <2>1, Goes
  <2>3. q.pc = "connect" => \A w \in wallets : w.address # q.address
    BY <2>1, <2>2 DEF Becomes, GoesOn
  <2> QED
    BY <1>2, <2>1, <2>2, <2>3, Moves
<1>6. CASE W!Convert(r)
  <2>1. /\ W!Goto(r, "log") /\ walletReq[r].pc = "convert"
        /\ "log" \in Stages(walletReq[r].kind)
    BY <1>1, <1>6 DEF W!Convert, W!At, Stages, RequestOK, WalletRequest
  <2>2. PICK q : Becomes(r, q) /\ q.pc = "log"
    BY <1>1, <2>1, Goes
  <2> QED
    BY <1>2, <2>1, <2>2, Moves
<1> QED
  BY <1>3, <1>4, <1>5, <1>6

(* The faucet goes on only when the last grant is a delay ago.              *)
LEMMA CheckingTheTimeKeeps ==
    ASSUME IsFiniteSet(Requests), WalletsInv, NEW r \in Requests, W!CheckTime(r)
    PROVE  WalletsInv'
<1>1. WalletsShape /\ RequestOK(walletReq[r])
  BY DEF WalletsInv, WalletsShape
<1>2. UNCHANGED <<wallets, logged, reserve, native, received, times, clock, grants, lapse, lost,
                  forced>>
  BY DEF W!CheckTime, W!funds, W!faucet
<1>3. PICK pc \in {"give", "idle"} :
          /\ W!Goto(r, pc) /\ walletReq[r].pc = "faucet"
          /\ pc = "idle" \/ pc \in Stages(walletReq[r].kind)
          /\ pc = "give" => ~W!TooSoon(walletReq[r].user)
  BY <1>1 DEF W!CheckTime, W!At, Stages, RequestOK, WalletRequest
<1>4. PICK q : Becomes(r, q) /\ q.pc = pc
  BY <1>1, <1>3, Goes
<1>5. ASSUME pc = "give", NEW u \in Users \ lapse, Draws(r, u), Given(u)
      PROVE  LastGrant(u) + 2 <= clock
  <2>1. FaucetOK(u) /\ walletReq[r].user = u
    BY <1>5 DEF WalletsInv, Draws
  <2>2. \A s \in Requests : Draws(s, u) => walletReq[s].pc \notin {"convert", "log"}
    BY <1>3, <1>5, <2>1 DEF FaucetOK
  <2>3. LastGrant(u) <= times[u]
    BY <1>5, <2>1, <2>2 DEF FaucetOK
  <2>4. grants[u] \in Seq(Nat) /\ times[u] \in Int /\ clock \in Nat
    BY <1>1 DEF WalletsShape
  <2>5. LastGrant(u) \in Nat
    BY <1>5, <2>4 DEF Given, LastGrant
  <2>6. times[u] <= clock - 2
    BY <1>3, <1>5, <2>1, <2>3, <2>4, <2>5 DEF W!TooSoon, W!Never
  <2> QED
    BY <2>3, <2>4, <2>5, <2>6
<1> QED
  BY <1>2, <1>3, <1>4, <1>5, Moves

-----------------------------------------------------------------------------

(* A step that changes rows of wallets, and moves its request on.           *)
LEMMA RowsChange ==
    ASSUME IsFiniteSet(Requests), WalletsInv, NEW r \in Requests, NEW q, Becomes(r, q),
           UNCHANGED <<logged, reserve, native, received, times, clock, grants, lapse, lost>>,
           walletReq[r].pc \in {"insert", "connect", "update"},
           q.pc \in {"faucet", "balance", "idle"},
           wallets' \subseteq [user : Users, address : W!Address], ConnectsOK'
    PROVE  WalletsInv'
<1>1. WalletsShape /\ PairsOK /\ ConnectsOK /\ ChargesOK /\ LogsOK
      /\ \A u \in Users \ lapse : FaucetOK(u)
  BY DEF WalletsInv
<1>2. WalletsShape'
  BY <1>1, ShapeMoves DEF WalletsShape
<1>3. PairsOK' /\ ChargesOK'
  BY <1>1, PairsMove, ChargesMove
<1>4. ASSUME NEW u \in Users \ lapse
      PROVE  FaucetOK(u)'
  <2>1. FaucetOK(u)
    BY <1>1
  <2> QED
    BY <1>1, <2>1, FaucetMoves
<1>5. LogsOK'
  <2>1. \A u \in Users : Part(q, u) = Part(walletReq[r], u)
    BY DEF Part
  <2>2. \A u \in Users : received'[u] - logged'[u] - lost'[u] - Part(q, u)
                             = received[u] - logged[u] - lost[u] - Part(walletReq[r], u)
    BY <2>1
  <2> QED
    BY <1>1, <1>2, <2>2, LogsMove
<1> QED
  BY <1>2, <1>3, <1>4, <1>5 DEF WalletsInv

(* A wallet made now has an account that no row holds and no request asks for. *)
LEMMA CreatingKeeps ==
    ASSUME IsFiniteSet(Requests), WalletsInv, NEW r \in Requests, W!CreateWallet(r)
    PROVE  WalletsInv'
<1>1. WalletsShape /\ RequestOK(walletReq[r])
  BY DEF WalletsInv, WalletsShape
<1>2. UNCHANGED <<logged, reserve, native, received, times, clock, grants, lapse, lost, forced>>
  BY DEF W!CreateWallet, W!funds, W!faucet
<1>3. PICK pc \in {"faucet", "balance", "idle"} :
          /\ W!Goto(r, pc) /\ walletReq[r].pc = "insert"
          /\ pc = "idle" \/ pc \in Stages(walletReq[r].kind)
  BY <1>1 DEF W!CreateWallet, W!At, W!After, Stages, RequestOK, WalletRequest
<1>4. PICK q : Becomes(r, q) /\ q.pc = pc
  BY <1>1, <1>3, Goes
<1>5. PICK a \in Addresses :
          /\ a \notin {w.address.account : w \in wallets}
          /\ a \notin {walletReq[i].address.account : i \in Requests \ W!Idle}
          /\ W!Store(r, [account |-> a, form |-> "checksum"])
  BY DEF W!CreateWallet
<1> DEFINE new == [account |-> a, form |-> "checksum"]
           row == [user |-> walletReq[r].user, address |-> new]
<1>6. new \in W!Address /\ new.account = a
  BY DEF W!Address
<1>7. row \in [user : Users, address : W!Address] /\ row.address.account = a
  BY <1>1, <1>3, <1>6 DEF RequestOK
<1>8. wallets' \subseteq wallets \union {row}
  BY <1>5 DEF W!Store
<1>9. wallets' \subseteq [user : Users, address : W!Address]
  BY <1>1, <1>7, <1>8 DEF WalletsShape
<1> HIDE DEF new, row
<1>10. \A w \in wallets : w.address.account # a
  BY <1>5
<1>11. ConnectsOK'
  <2>1. ASSUME NEW v \in wallets', NEW w \in wallets', v # w,
               v.address.account = w.address.account
        PROVE  v.address.account \in forced
    BY <1>7, <1>8, <1>10, <2>1 DEF WalletsInv, ConnectsOK
  <2>2. ASSUME NEW s \in Requests, walletReq'[s].pc = "connect", walletReq'[s].alone,
               NEW w \in wallets'
        PROVE  w.address # walletReq'[s].address
    <3>1. s # r /\ walletReq'[s] = walletReq[s]
      BY <1>1, <1>4, <2>2, ShapeMoves
    <3>2. walletReq[s].pc # "idle"
      BY <2>2, <3>1
    <3>3. walletReq[s].address.account # a
      BY <1>5, <3>2 DEF W!Idle
    <3>4. CASE w \in wallets
      BY <2>2, <3>1, <3>4 DEF WalletsInv, ConnectsOK
    <3>5. CASE w = row
      BY <1>7, <3>1, <3>3, <3>5
    <3> QED
      BY <1>8, <3>4, <3>5
  <2> QED
    BY <1>2, <2>1, <2>2 DEF ConnectsOK
<1> QED
  BY <1>2, <1>3, <1>4, <1>9, <1>11, RowsChange

(* A lone request connects an address that nobody holds; one that is not    *)
(* alone, or whose account is held in another spelling, is forced.          *)
LEMMA ConnectingKeeps ==
    ASSUME IsFiniteSet(Requests), WalletsInv, NEW r \in Requests, W!Connect(r)
    PROVE  WalletsInv'
<1>1. WalletsShape /\ RequestOK(walletReq[r]) /\ walletReq[r].pc = "connect"
  BY DEF WalletsInv, WalletsShape, W!Connect, W!At
<1>2. UNCHANGED <<logged, reserve, native, received, times, clock, grants, lapse, lost>>
      /\ W!Goto(r, "idle") /\ W!Store(r, walletReq[r].address)
      /\ forced' = forced \union W!Unchecked(r)
  BY DEF W!Connect, W!funds, W!faucet
<1>3. PICK q : Becomes(r, q) /\ q.pc = "idle"
  BY <1>1, <1>2, Goes
<1> DEFINE row == [user |-> walletReq[r].user, address |-> walletReq[r].address]
<1>4. walletReq[r].kind = "connect" /\ walletReq[r].user \in Users
      /\ walletReq[r].address \in W!Address /\ walletReq[r].alone \in BOOLEAN
  BY <1>1 DEF RequestOK, Stages, WalletRequest
<1>5. row \in [user : Users, address : W!Address] /\ row.address = walletReq[r].address
  BY <1>4
<1>6. wallets' \subseteq wallets \union {row}
  BY <1>2 DEF W!Store
<1>7. wallets' \subseteq [user : Users, address : W!Address]
  BY <1>1, <1>5, <1>6 DEF WalletsShape
<1> HIDE DEF row
<1>8. ASSUME NEW w \in wallets, w.address.account = row.address.account
      PROVE  row.address.account \in forced'
  <2>1. CASE ~walletReq[r].alone
    BY <1>2, <1>5, <2>1 DEF W!Unchecked
  <2>2. CASE walletReq[r].alone
    <3>1. w.address # walletReq[r].address
      BY <1>1, <2>2 DEF WalletsInv, ConnectsOK
    <3>2. w.address \in W!Address
      BY <1>1 DEF WalletsShape
    <3>3. w.address.form # walletReq[r].address.form
      BY <1>4, <1>5, <1>8, <3>1, <3>2 DEF W!Address
    <3> QED
      BY <1>2, <1>5, <1>8, <3>3 DEF W!Unchecked
  <2> QED
    BY <1>4, <2>1, <2>2
<1>9. ConnectsOK'
  <2>1. ASSUME NEW v \in wallets', NEW w \in wallets', v # w,
               v.address.account = w.address.account
        PROVE  v.address.account \in forced'
    <3>1. CASE v \in wallets /\ w \in wallets
      BY <1>2, <2>1, <3>1 DEF WalletsInv, ConnectsOK
    <3>2. CASE v = row /\ w \in wallets
      BY <1>8, <2>1, <3>2
    <3>3. CASE w = row /\ v \in wallets
      BY <1>8, <2>1, <3>3
    <3> QED
      BY <1>6, <2>1, <3>1, <3>2, <3>3
  <2>2. ASSUME NEW s \in Requests, walletReq'[s].pc = "connect", walletReq'[s].alone
        PROVE  FALSE
    <3>1. s # r /\ walletReq'[s] = walletReq[s]
      BY <1>1, <1>3, <2>2, ShapeMoves
    <3>2. walletReq[s].kind = "connect"
      BY <1>1, <2>2, <3>1 DEF WalletsShape, RequestOK, Stages, WalletRequest
    <3> QED
      BY <1>1, <1>4, <2>2, <3>1, <3>2 DEF WalletsInv, PairsOK
  <2> QED
    BY <2>1, <2>2 DEF ConnectsOK
<1> QED
  BY <1>1, <1>2, <1>3, <1>7, <1>9, RowsChange

(* An account set by force is among the forced ones.                        *)
LEMMA ForcingKeeps ==
    ASSUME IsFiniteSet(Requests), WalletsInv, NEW r \in Requests, W!ConnectByForce(r)
    PROVE  WalletsInv'
<1>1. WalletsShape /\ RequestOK(walletReq[r]) /\ walletReq[r].pc = "update"
  BY DEF WalletsInv, WalletsShape, W!ConnectByForce, W!At
<1> DEFINE row == [user |-> walletReq[r].user, address |-> walletReq[r].address]
<1>2. UNCHANGED <<logged, reserve, native, received, times, clock, grants, lapse, lost>>
      /\ W!Goto(r, "idle") /\ wallets' \subseteq wallets \union {row}
      /\ forced' = forced \union {walletReq[r].address.account}
  BY DEF W!ConnectByForce, W!funds, W!faucet
<1>3. PICK q : Becomes(r, q) /\ q.pc = "idle"
  BY <1>1, <1>2, Goes
<1>4. walletReq[r].kind = "connect" /\ walletReq[r].user \in Users
      /\ walletReq[r].address \in W!Address
  BY <1>1 DEF RequestOK, Stages, WalletRequest
<1>5. row \in [user : Users, address : W!Address] /\ row.address.account \in forced'
  BY <1>2, <1>4
<1>6. wallets' \subseteq [user : Users, address : W!Address]
  BY <1>1, <1>2, <1>5 DEF WalletsShape
<1> HIDE DEF row
<1>7. ConnectsOK'
  <2>1. ASSUME NEW v \in wallets', NEW w \in wallets', v # w,
               v.address.account = w.address.account
        PROVE  v.address.account \in forced'
    <3>1. CASE v \in wallets /\ w \in wallets
      BY <1>2, <2>1, <3>1 DEF WalletsInv, ConnectsOK
    <3>2. CASE v = row \/ w = row
      BY <1>5, <2>1, <3>2
    <3> QED
      BY <1>2, <2>1, <3>1, <3>2
  <2>2. ASSUME NEW s \in Requests, walletReq'[s].pc = "connect", walletReq'[s].alone
        PROVE  FALSE
    <3>1. s # r /\ walletReq'[s] = walletReq[s]
      BY <1>1, <1>3, <2>2, ShapeMoves
    <3>2. walletReq[s].kind = "connect"
      BY <1>1, <2>2, <3>1 DEF WalletsShape, RequestOK, Stages, WalletRequest
    <3> QED
      BY <1>1, <1>4, <2>2, <3>1, <3>2 DEF WalletsInv, PairsOK
  <2> QED
    BY <2>1, <2>2 DEF ConnectsOK
<1> QED
  BY <1>1, <1>2, <1>3, <1>6, <1>7, RowsChange

-----------------------------------------------------------------------------

(* A step of a request that leaves the rows alone.                          *)
LEMMA FundsChange ==
    ASSUME IsFiniteSet(Requests), WalletsInv, NEW r \in Requests, NEW q, Becomes(r, q),
           UNCHANGED <<wallets, forced>>, q.pc # "connect", WalletsShape', ChargesOK',
           \A u \in Users \ lapse' : FaucetOK(u)',
           \A u \in Users : received'[u] - logged'[u] - lost'[u] - Part(q, u)
                                = received[u] - logged[u] - lost[u] - Part(walletReq[r], u)
    PROVE  WalletsInv'
<1>1. WalletsShape /\ PairsOK /\ ConnectsOK /\ LogsOK
  BY DEF WalletsInv
<1>2. PairsOK' /\ ConnectsOK'
  BY <1>1, PairsMove, ConnectsMove
<1>3. LogsOK'
  BY <1>1, LogsMove
<1> QED
  BY <1>2, <1>3 DEF WalletsInv

(* The next state of the operator's lone charge.                            *)
LEMMA ChargesOfOthers ==
    ASSUME WalletsShape, PairsOK, ChargesOK, NEW r \in Requests, NEW q, Becomes(r, q),
           walletReq[r].kind = "charge", walletReq[r].pc # "idle",
           q.pc = "refill" /\ q.alone =>
               reserve' < q.amount /\ q.need = 5 * (q.amount - reserve'),
           q.pc = "transfer" /\ q.alone => q.amount <= reserve'
    PROVE  ChargesOK'
<1>1. walletReq'[r] = q /\ \A i \in Requests \ {r} : walletReq'[i] = walletReq[i]
  BY ShapeMoves
<1>2. ASSUME NEW i \in Requests, i # r, walletReq'[i].pc \in {"refill", "transfer"}
      PROVE  ~walletReq'[i].alone
  <2>1. walletReq[i].kind = "charge" /\ walletReq[i].pc # "idle"
    BY <1>1, <1>2 DEF WalletsShape, RequestOK, Stages, WalletRequest
  <2> QED
    BY <1>1, <1>2, <2>1 DEF PairsOK
<1> QED
  BY <1>1, <1>2 DEF ChargesOK

(* A charge finds enough, too little, or exactly its amount, and then ends. *)
LEMMA BalanceKeeps ==
    ASSUME IsFiniteSet(Requests), WalletsInv, NEW r \in Requests, W!Balance(r)
    PROVE  WalletsInv'
<1>1. WalletsShape /\ RequestOK(walletReq[r]) /\ walletReq[r].pc = "balance"
      /\ walletReq[r] \in WalletRequest
  BY DEF WalletsInv, WalletsShape, W!Balance, W!At, RequestOK
<1>2. UNCHANGED <<wallets, logged, reserve, native, received, times, clock, grants, lapse, lost,
                  forced>>
  BY DEF W!Balance, W!funds, W!faucet
<1>3. walletReq[r].kind = "charge" /\ walletReq[r].amount \in Nat /\ reserve \in Int
  BY <1>1 DEF RequestOK, Stages, WalletRequest, WalletsShape
<1>4. CASE reserve = walletReq[r].amount
  <2>1. W!Goto(r, "idle")
    BY <1>4 DEF W!Balance
  <2>2. PICK q : Becomes(r, q) /\ q.pc = "idle"
    BY <1>1, <2>1, Goes
  <2> QED
    BY <1>1, <1>2, <2>2, Moves
<1>5. CASE reserve # walletReq[r].amount
  <2> DEFINE pc == IF reserve > walletReq[r].amount THEN "transfer" ELSE "refill"
             need == IF reserve > walletReq[r].amount THEN 0
                     ELSE 5 * (walletReq[r].amount - reserve)
             q == [walletReq[r] EXCEPT !.pc = pc, !.need = need]
  <2>1. walletReq' = [walletReq EXCEPT ![r] = q]
    BY <1>5 DEF W!Balance
  <2>2. need \in Int
    BY <1>3
  <2>3. pc \in {"transfer", "refill"} /\ (pc = "transfer" => walletReq[r].amount <= reserve)
        /\ (pc = "refill" => reserve < walletReq[r].amount
                             /\ need = 5 * (walletReq[r].amount - reserve))
    BY <1>3, <1>5
  <2> HIDE DEF pc, need
  <2>4. q \in WalletRequest /\ q.pc = pc /\ q.need = need /\ q.kind = walletReq[r].kind
        /\ q.user = walletReq[r].user /\ q.address = walletReq[r].address
        /\ q.amount = walletReq[r].amount /\ q.alone = walletReq[r].alone
    BY <1>1, <2>2, <2>3 DEF WalletRequest
  <2> HIDE DEF q
  <2>5. RequestOK(q) /\ Becomes(r, q)
    BY <1>1, <1>3, <2>1, <2>3, <2>4 DEF RequestOK, Becomes, GoesOn, Stages
  <2>6. ChargesOK'
    BY <1>1, <1>2, <1>3, <2>3, <2>4, <2>5, ChargesOfOthers DEF WalletsInv
  <2> QED
    BY <1>1, <1>2, <2>3, <2>4, <2>5, <2>6, Moves
<1> QED
  BY <1>4, <1>5

(* Five times what is missing is more than is missing.                      *)
LEMMA RefillKeeps ==
    ASSUME IsFiniteSet(Requests), WalletsInv, NEW r \in Requests, W!Refill(r)
    PROVE  WalletsInv'
<1>1. WalletsShape /\ RequestOK(walletReq[r]) /\ walletReq[r].pc = "refill"
      /\ walletReq[r] \in WalletRequest
  BY DEF WalletsInv, WalletsShape, W!Refill, W!At, RequestOK
<1>2. UNCHANGED <<wallets, logged, received, times, clock, grants, lapse, lost, forced>>
  BY DEF W!Refill, W!faucet
<1>3. walletReq[r].kind = "charge" /\ walletReq[r].amount \in Nat /\ walletReq[r].need \in Int
      /\ reserve \in Int /\ native \in Int
  BY <1>1 DEF RequestOK, Stages, WalletRequest, WalletsShape
<1>4. PICK pc \in {"transfer", "idle"} :
          /\ W!Goto(r, pc) /\ reserve' \in Int /\ native' \in Int
          /\ pc = "transfer" => reserve' = reserve + walletReq[r].need
  BY <1>3 DEF W!Refill
<1>5. PICK q : /\ Becomes(r, q) /\ q.pc = pc
  BY <1>1, <1>3, <1>4, Goes DEF Stages
<1>6. WalletsShape'
  BY <1>1, <1>2, <1>4, <1>5, ShapeMoves DEF WalletsShape
<1>7. ASSUME pc = "transfer", q.alone
      PROVE  q.amount <= reserve'
  <2>1. q.amount = walletReq[r].amount /\ walletReq[r].alone
    BY <1>5, <1>7 DEF Becomes, GoesOn
  <2>2. reserve < walletReq[r].amount /\ walletReq[r].need = 5 * (walletReq[r].amount - reserve)
    BY <1>1, <2>1 DEF WalletsInv, ChargesOK
  <2> QED
    BY <1>3, <1>4, <1>7, <2>1, <2>2
<1>8. ChargesOK'
  BY <1>1, <1>3, <1>4, <1>5, <1>7, ChargesOfOthers DEF WalletsInv
<1>9. ASSUME NEW u \in Users \ lapse'
      PROVE  FaucetOK(u)'
  <2>1. FaucetOK(u)
    BY <1>2 DEF WalletsInv
  <2> QED
    BY <1>1, <1>2, <1>4, <1>5, <2>1, FaucetMoves
<1>10. \A u \in Users : received'[u] - logged'[u] - lost'[u] - Part(q, u)
                            = received[u] - logged[u] - lost[u] - Part(walletReq[r], u)
  BY <1>1, <1>2, <1>4, <1>5 DEF Part
<1> QED
  BY <1>2, <1>4, <1>5, <1>6, <1>8, <1>9, <1>10, FundsChange

(* What is transferred is received, and to be logged.                       *)
LEMMA TransferKeeps ==
    ASSUME IsFiniteSet(Requests), WalletsInv, NEW r \in Requests, W!Transfer(r)
    PROVE  WalletsInv'
<1>1. WalletsShape /\ RequestOK(walletReq[r]) /\ walletReq[r].pc = "transfer"
      /\ walletReq[r] \in WalletRequest
  BY DEF WalletsInv, WalletsShape, W!Transfer, W!At, RequestOK
<1>2. UNCHANGED <<wallets, logged, native, times, clock, grants, lapse, lost, forced>>
  BY DEF W!Transfer, W!faucet
<1>3. walletReq[r].kind = "charge" /\ walletReq[r].amount \in Nat /\ walletReq[r].user \in Users
      /\ reserve \in Int /\ received \in [Users -> Int]
  BY <1>1 DEF RequestOK, Stages, WalletRequest, WalletsShape
<1>4. PICK pc \in {"log", "idle"} :
          /\ W!Goto(r, pc) /\ reserve' \in Int
          /\ pc = "log" => received' = [received EXCEPT ![walletReq[r].user] = @ + walletReq[r].amount]
          /\ pc = "idle" => received' = received
  BY <1>3 DEF W!Transfer
<1>5. PICK q : Becomes(r, q) /\ q.pc = pc
  BY <1>1, <1>3, <1>4, Goes DEF Stages
<1>6. received' \in [Users -> Int]
  BY <1>3, <1>4
<1>7. WalletsShape'
  BY <1>1, <1>2, <1>4, <1>5, <1>6, ShapeMoves DEF WalletsShape
<1>8. ChargesOK'
  BY <1>1, <1>3, <1>4, <1>5, ChargesOfOthers DEF WalletsInv
<1>9. ASSUME NEW u \in Users \ lapse'
      PROVE  FaucetOK(u)'
  <2>1. FaucetOK(u)
    BY <1>2 DEF WalletsInv
  <2> QED
    BY <1>1, <1>2, <1>4, <1>5, <2>1, FaucetMoves
<1>10. ASSUME NEW u \in Users
       PROVE  received'[u] - logged'[u] - lost'[u] - Part(q, u)
                  = received[u] - logged[u] - lost[u] - Part(walletReq[r], u)
  <2>1. Part(walletReq[r], u) = 0 /\ received[u] \in Int /\ logged[u] \in Int /\ lost[u] \in Int
    BY <1>1 DEF Part, WalletsShape
  <2>2. CASE pc = "idle"
    BY <1>2, <1>4, <1>5, <2>1, <2>2 DEF Part
  <2>3. CASE pc = "log" /\ u # walletReq[r].user
    <3>1. Part(q, u) = 0 /\ received'[u] = received[u]
      BY <1>3, <1>4, <1>5, <2>3 DEF Part, Becomes, GoesOn
    <3> QED
      BY <1>2, <2>1, <3>1
  <2>4. CASE pc = "log" /\ u = walletReq[r].user
    <3>1. Part(q, u) = walletReq[r].amount
      BY <1>5, <2>4 DEF Part, Becomes, GoesOn
    <3>2. received'[u] = received[u] + walletReq[r].amount
      BY <1>3, <1>4, <2>4
    <3> QED
      BY <1>2, <1>3, <2>1, <3>1, <3>2
  <2> QED
    BY <2>2, <2>3, <2>4
<1> QED
  BY <1>2, <1>4, <1>5, <1>7, <1>8, <1>9, <1>10, FundsChange

-----------------------------------------------------------------------------

(* The faucet gives when the last grant is a delay ago; the grant is now.   *)
LEMMA GivingKeeps ==
    ASSUME IsFiniteSet(Requests), WalletsInv, NEW r \in Requests, W!Give(r)
    PROVE  WalletsInv'
<1>1. WalletsShape /\ RequestOK(walletReq[r]) /\ walletReq[r].pc = "give"
      /\ walletReq[r] \in WalletRequest
  BY DEF WalletsInv, WalletsShape, W!Give, W!At, RequestOK
<1>3. walletReq[r].kind = "faucet"
  BY <1>1 DEF RequestOK, Stages, WalletRequest
<1>0. PICK o \in Users, a \in Nat : o = walletReq[r].user /\ a = walletReq[r].amount
  BY <1>1 DEF RequestOK, WalletRequest
<1>2. UNCHANGED <<wallets, logged, reserve, lost, times, clock, lapse, forced>>
      /\ W!Goto(r, "convert") /\ native' = native - a
      /\ received' = [received EXCEPT ![o] = @ + a]
      /\ grants' = [grants EXCEPT ![o] = Append(@, clock)]
  BY <1>0 DEF W!Give
<1>4. /\ native \in Int /\ clock \in Nat /\ received \in [Users -> Int]
      /\ grants \in [Users -> Seq(Nat)]
  BY <1>1 DEF WalletsShape
<1>5. PICK q : Becomes(r, q) /\ q.pc = "convert"
  BY <1>1, <1>2, <1>3, Goes DEF Stages
<1>6. /\ native' \in Int /\ received' \in [Users -> Int]
      /\ \A u \in Users \ {o} : received'[u] = received[u] /\ grants'[u] = grants[u]
      /\ received'[o] = received[o] + a /\ grants'[o] = Append(grants[o], clock)
  BY <1>2, <1>4
<1>7. grants' \in [Users -> Seq(Nat)]
  <2>1. Append(grants[o], clock) \in Seq(Nat)
    BY <1>4
  <2> QED
    BY <1>2, <1>4, <2>1
<1>8. WalletsShape'
  BY <1>1, <1>2, <1>5, <1>6, <1>7, ShapeMoves DEF WalletsShape
<1>9. ChargesOK'
  BY <1>1, <1>2, <1>5, ChargesMove DEF WalletsInv
<1>10. ASSUME NEW u \in Users \ lapse', u # o
       PROVE  FaucetOK(u)'
  <2>1. FaucetOK(u)
    BY <1>2 DEF WalletsInv
  <2> QED
    BY <1>1, <1>2, <1>5, <1>6, <1>10, <2>1, FaucetMoves
<1>11. ASSUME o \notin lapse'
       PROVE  FaucetOK(o)'
  <2>1. FaucetOK(o)
    BY <1>2, <1>3, <1>11 DEF WalletsInv
  <2>2. walletReq'[r] = q /\ \A i \in Requests \ {r} : walletReq'[i] = walletReq[i]
    BY <1>1, <1>5, ShapeMoves
  <2>3. Draws(r, o) /\ Draws(r, o)'
    BY <1>0, <1>3, <1>5, <2>2 DEF Draws, Becomes, GoesOn
  <2>4. \A i \in Requests \ {r} : Draws(i, o)' => walletReq'[i].pc = "idle"
    <3>1. \A i \in Requests \ {r} : Draws(i, o) => walletReq[i].pc = "idle"
      BY <1>1, <2>1, <2>3 DEF FaucetOK
    <3> QED
      BY <2>2, <3>1 DEF Draws
  <2> DEFINE g == grants[o]
             h == grants'[o]
  <2>5. g \in Seq(Nat) /\ h = Append(g, clock) /\ clock \in Nat
    BY <1>3, <1>4, <1>6
  <2>6. Given(o) => LastGrant(o) + 2 <= clock
    BY <1>1, <2>1, <2>3 DEF FaucetOK
  <2> HIDE DEF g, h
  <2>7. Len(h) = Len(g) + 1 /\ Len(g) \in Nat /\ h[Len(h)] = clock
        /\ \A i \in 1 .. Len(g) : h[i] = g[i] /\ g[i] \in Nat
    BY <2>5
  <2>8. ASSUME NEW i \in 1 .. Len(h) - 1
        PROVE  h[i + 1] - h[i] >= 2
    <3>1. CASE i < Len(g)
      <4>1. i \in 1 .. Len(g) - 1 /\ i + 1 \in 1 .. Len(g) /\ i \in 1 .. Len(g)
        BY <2>7, <3>1
      <4>2. g[i + 1] - g[i] >= 2
        BY <2>1, <4>1 DEF FaucetOK, g
      <4>3. h[i + 1] = g[i + 1] /\ h[i] = g[i]
        BY <2>7, <4>1
      <4> QED
        BY <4>2, <4>3
    <3>2. CASE i = Len(g)
      <4>1. Len(g) > 0 /\ i \in 1 .. Len(g) /\ i + 1 = Len(h)
        BY <2>7, <3>2
      <4>2. g[i] + 2 <= clock
        BY <2>6, <3>2, <4>1 DEF Given, LastGrant, g
      <4>3. h[i + 1] = clock /\ h[i] = g[i] /\ g[i] \in Nat
        BY <2>7, <4>1
      <4> QED
        BY <2>5, <4>2, <4>3
    <3> QED
      BY <2>7, <3>1, <3>2
  <2>9. LastGrant(o)' = clock
    BY <2>7 DEF LastGrant, h
  <2>10. clock <= clock' /\ walletReq'[r].pc = "convert"
    BY <1>2, <1>4, <1>5, <2>2
  <2>11. \A i \in 1 .. Len(grants'[o]) - 1 : grants'[o][i + 1] - grants'[o][i] >= 2
    BY <2>8 DEF h
  <2> QED
    BY <1>1, <1>5, <2>2, <2>3, <2>4, <2>9, <2>10, <2>11 DEF FaucetOK
<1>12. ASSUME NEW u \in Users
       PROVE  received'[u] - logged'[u] - lost'[u] - Part(q, u)
                  = received[u] - logged[u] - lost[u] - Part(walletReq[r], u)
  <2>1. Part(walletReq[r], u) = 0 /\ received[u] \in Int /\ logged[u] \in Int /\ lost[u] \in Int
    BY <1>1 DEF Part, WalletsShape
  <2>2. CASE u # o
    <3>1. Part(q, u) = 0 /\ received'[u] = received[u]
      BY <1>0, <1>5, <1>6, <2>2 DEF Part, Becomes, GoesOn
    <3> QED
      BY <1>2, <2>1, <3>1
  <2>3. CASE u = o
    <3>1. Part(q, u) = a
      BY <1>0, <1>5, <2>3 DEF Part, Becomes, GoesOn
    <3>2. received'[u] = received[u] + a
      BY <1>6, <2>3
    <3> QED
      BY <1>2, <1>3, <2>1, <3>1, <3>2
  <2> QED
    BY <2>2, <2>3
<1>13. \A u \in Users \ lapse' : FaucetOK(u)'
  BY <1>10, <1>11
<1> QED
  BY <1>2, <1>5, <1>8, <1>9, <1>12, <1>13, FundsChange

-----------------------------------------------------------------------------

(* What is logged is no longer to be logged; the time of the faucet is set   *)
(* to one that no grant of the user is after.                               *)
LEMMA LoggingKeeps ==
    ASSUME IsFiniteSet(Requests), WalletsInv, NEW r \in Requests, W!Log(r)
    PROVE  WalletsInv'
<1>1. WalletsShape /\ RequestOK(walletReq[r]) /\ walletReq[r].pc = "log"
      /\ walletReq[r] \in WalletRequest
  BY DEF WalletsInv, WalletsShape, W!Log, W!At, RequestOK
<1>2. PICK o \in Users, a \in Nat : o = walletReq[r].user /\ a = walletReq[r].amount
  BY <1>1 DEF RequestOK, WalletRequest
<1>3. UNCHANGED <<wallets, reserve, native, received, lost, clock, grants, lapse, forced>>
      /\ W!Goto(r, "idle") /\ logged' = [logged EXCEPT ![o] = @ + a]
      /\ times' = IF walletReq[r].kind = "faucet" THEN [times EXCEPT ![o] = clock] ELSE times
  BY <1>2 DEF W!Log
<1>4. clock \in Nat /\ logged \in [Users -> Int] /\ times \in [Users -> Int]
  BY <1>1 DEF WalletsShape
<1>5. PICK q : Becomes(r, q) /\ q.pc = "idle"
  BY <1>1, <1>3, Goes
<1>6. /\ logged' \in [Users -> Int] /\ logged'[o] = logged[o] + a
      /\ \A u \in Users \ {o} : logged'[u] = logged[u] /\ times'[u] = times[u]
      /\ walletReq[r].kind = "faucet" => times'[o] = clock
      /\ walletReq[r].kind # "faucet" => times' = times
  BY <1>3, <1>4
<1>7. times' \in [Users -> Int]
  BY <1>3, <1>4
<1>8. WalletsShape'
  BY <1>1, <1>3, <1>5, <1>6, <1>7, ShapeMoves DEF WalletsShape
<1>9. ChargesOK'
  BY <1>1, <1>3, <1>5, ChargesMove DEF WalletsInv
<1>10. ASSUME NEW u \in Users \ lapse', ~Draws(r, u)
       PROVE  FaucetOK(u)'
  <2>1. FaucetOK(u) /\ times'[u] = times[u]
    BY <1>2, <1>3, <1>6, <1>10 DEF WalletsInv, Draws
  <2> QED
    BY <1>1, <1>3, <1>5, <1>10, <2>1, FaucetMoves
<1>11. ASSUME NEW u \in Users \ lapse', Draws(r, u)
       PROVE  FaucetOK(u)'
  <2>1. FaucetOK(u) /\ times'[u] = clock
    BY <1>2, <1>3, <1>6, <1>11 DEF WalletsInv, Draws
  <2>2. walletReq'[r] = q /\ \A i \in Requests \ {r} : walletReq'[i] = walletReq[i]
    BY <1>1, <1>5, ShapeMoves
  <2>3. \A i \in Requests : Draws(i, u)' => walletReq'[i].pc = "idle"
    <3>1. \A i \in Requests \ {r} : Draws(i, u) => walletReq[i].pc = "idle"
      BY <1>1, <1>11, <2>1 DEF FaucetOK
    <3> QED
      BY <1>5, <2>2, <3>1 DEF Draws
  <2>4. Given(u)' = Given(u) /\ LastGrant(u)' = LastGrant(u) /\ grants' = grants /\ clock' = clock
    BY <1>3 DEF Given, LastGrant
  <2> QED
    BY <2>1, <2>3, <2>4 DEF FaucetOK
<1>12. ASSUME NEW u \in Users
       PROVE  received'[u] - logged'[u] - lost'[u] - Part(q, u)
                  = received[u] - logged[u] - lost[u] - Part(walletReq[r], u)
  <2>1. Part(q, u) = 0 /\ received[u] \in Int /\ logged[u] \in Int /\ lost[u] \in Int
    BY <1>1, <1>5 DEF Part, WalletsShape
  <2>2. CASE u # o
    <3>1. Part(walletReq[r], u) = 0 /\ logged'[u] = logged[u]
      BY <1>2, <1>6, <2>2 DEF Part
    <3> QED
      BY <1>3, <2>1, <3>1
  <2>3. CASE u = o
    <3>1. Part(walletReq[r], u) = a /\ logged'[u] = logged[u] + a
      BY <1>1, <1>2, <1>6, <2>3 DEF Part
    <3> QED
      BY <1>2, <1>3, <2>1, <3>1
  <2> QED
    BY <2>2, <2>3
<1>13. \A u \in Users \ lapse' : FaucetOK(u)'
  BY <1>10, <1>11
<1> QED
  BY <1>3, <1>5, <1>8, <1>9, <1>12, <1>13, FundsChange

(* What a failed request has given and not logged is lost to the log; a user *)
(* whose faucet request fails is not looked after any more.                 *)
LEMMA FailingKeeps ==
    ASSUME IsFiniteSet(Requests), WalletsInv, NEW r \in Requests, W!FailStep(r)
    PROVE  WalletsInv'
<1>1. WalletsShape /\ RequestOK(walletReq[r]) /\ walletReq[r].pc # "idle"
      /\ walletReq[r] \in WalletRequest
  BY DEF WalletsInv, WalletsShape, W!FailStep, W!Idle, RequestOK
<1>2. PICK o \in Users, a \in Nat : o = walletReq[r].user /\ a = W!Unlogged(r)
  BY <1>1 DEF RequestOK, WalletRequest, W!Unlogged
<1>3. UNCHANGED <<wallets, logged, reserve, native, received, times, clock, grants, forced>>
      /\ W!Goto(r, "idle") /\ lost' = [lost EXCEPT ![o] = @ + a]
      /\ lapse' = W!Cut(r)
  BY <1>2 DEF W!FailStep
<1>4. lost \in [Users -> Int]
  BY <1>1 DEF WalletsShape
<1>5. PICK q : Becomes(r, q) /\ q.pc = "idle"
  BY <1>1, <1>3, Goes
<1>6. /\ lost' \in [Users -> Int] /\ lost'[o] = lost[o] + a
      /\ \A u \in Users \ {o} : lost'[u] = lost[u]
  BY <1>3, <1>4
<1>8. WalletsShape'
  BY <1>1, <1>3, <1>5, <1>6, ShapeMoves DEF WalletsShape
<1>9. ChargesOK'
  BY <1>1, <1>3, <1>5, ChargesMove DEF WalletsInv
<1>10. ASSUME NEW u \in Users \ lapse'
       PROVE  FaucetOK(u)'
  <2>1. FaucetOK(u) /\ ~Draws(r, u)
    BY <1>3, <1>10 DEF WalletsInv, Draws, W!Cut
  <2> QED
    BY <1>1, <1>3, <1>5, <2>1, FaucetMoves
<1>11. Part(walletReq[r], o) = a /\ \A u \in Users \ {o} : Part(walletReq[r], u) = 0
  BY <1>2 DEF Part, W!Unlogged
<1>12. ASSUME NEW u \in Users
       PROVE  received'[u] - logged'[u] - lost'[u] - Part(q, u)
                  = received[u] - logged[u] - lost[u] - Part(walletReq[r], u)
  <2>1. Part(q, u) = 0 /\ received[u] \in Int /\ logged[u] \in Int /\ lost[u] \in Int
    BY <1>1, <1>5 DEF Part, WalletsShape
  <2>2. CASE u # o
    BY <1>3, <1>6, <1>11, <2>1, <2>2
  <2>3. CASE u = o
    BY <1>2, <1>3, <1>6, <1>11, <2>1, <2>3
  <2> QED
    BY <2>2, <2>3
<1> QED
  BY <1>3, <1>5, <1>8, <1>9, <1>10, <1>12, FundsChange

-----------------------------------------------------------------------------

(* A request begun spoils the requests it interferes with, and is spoilt by *)
(* them; a second one to the faucet lets its user lapse.                    *)
LEMMA BeginningKeeps ==
    ASSUME IsFiniteSet(Requests), WalletsInv, NEW r \in Requests,
           NEW kind \in {"wallet", "connect", "faucet", "charge"}, NEW u \in Users,
           NEW address \in W!Address \union {W!NoAddress}, NEW force \in BOOLEAN,
           NEW amount \in Nat, kind = "connect" => address \in W!Address,
           W!Begin(r, kind, u, address, force, amount)
    PROVE  WalletsInv'
<1>1. WalletsShape /\ PairsOK /\ ConnectsOK /\ ChargesOK /\ LogsOK
      /\ \A v \in Users \ lapse : FaucetOK(v)
  BY DEF WalletsInv
<1>2. walletReq[r].pc = "idle"
  BY DEF W!Begin, W!Idle
<1>3. UNCHANGED <<wallets, logged, reserve, native, received, lost, times, clock, grants, forced>>
      /\ lapse \subseteq lapse'
  BY DEF W!Begin, W!funds
<1> DEFINE rivals == W!Rivals(kind, u)
           q == [pc |-> "find", kind |-> kind, user |-> u, address |-> address, force |-> force,
                 amount |-> amount, need |-> 0, alone |-> rivals = {}]
<1>4. walletReq' = [i \in Requests |->
                      IF i = r THEN q ELSE [walletReq[i] EXCEPT !.alone = @ /\ i \notin rivals]]
  BY DEF W!Begin
<1>5. q \in WalletRequest /\ q.pc = "find" /\ q.kind = kind /\ q.user = u
      /\ q.address = address /\ q.alone = (rivals = {})
  BY DEF WalletRequest
<1>6. RequestOK(q)
  BY <1>5 DEF RequestOK, Stages
<1>7. ASSUME NEW i \in Requests \ {r}
      PROVE  /\ RequestOK(walletReq'[i])
             /\ walletReq'[i].pc = walletReq[i].pc /\ walletReq'[i].kind = walletReq[i].kind
             /\ walletReq'[i].user = walletReq[i].user /\ walletReq'[i].amount = walletReq[i].amount
             /\ walletReq'[i].address = walletReq[i].address /\ walletReq'[i].need = walletReq[i].need
             /\ walletReq'[i].alone = (walletReq[i].alone /\ i \notin rivals)
  <2>1. RequestOK(walletReq[i]) /\ walletReq[i] \in WalletRequest
    BY <1>1 DEF WalletsShape, RequestOK
  <2> DEFINE n == [walletReq[i] EXCEPT !.alone = @ /\ i \notin rivals]
  <2>2. /\ n \in WalletRequest /\ n.pc = walletReq[i].pc /\ n.kind = walletReq[i].kind
        /\ n.user = walletReq[i].user /\ n.amount = walletReq[i].amount
        /\ n.address = walletReq[i].address /\ n.need = walletReq[i].need
        /\ n.alone = (walletReq[i].alone /\ i \notin rivals)
    BY <2>1 DEF WalletRequest
  <2>3. walletReq'[i] = n
    BY <1>4
  <2> HIDE DEF n
  <2>4. RequestOK(n)
    BY <2>1, <2>2 DEF RequestOK
  <2> QED
    BY <2>2, <2>3, <2>4
<1>8. walletReq'[r] = q /\ DOMAIN walletReq' = Requests
      /\ walletReq' = [i \in Requests |-> walletReq'[i]]
  BY <1>4
<1> HIDE DEF q
<1>9. WalletsShape'
  <2>1. \A i \in Requests : RequestOK(walletReq'[i])
    BY <1>6, <1>7, <1>8
  <2> QED
    BY <1>1, <1>3, <1>8, <2>1 DEF WalletsShape
<1>10. \A i \in Requests \ {r} : walletReq'[i].alone => walletReq[i].alone
  BY <1>7
<1>11. PairsOK'
  <2>1. ASSUME NEW s \in Requests \ {r}, walletReq[s].pc # "idle",
               walletReq[s].kind = kind, kind \in {"connect", "charge"}
        PROVE  s \in rivals
    BY <2>1 DEF W!Rivals, W!Idle
  <2>2. ASSUME NEW s \in Requests \ {r}, walletReq'[s].pc # "idle",
               walletReq'[s].kind = kind, kind \in {"connect", "charge"}
        PROVE  ~walletReq'[s].alone /\ ~walletReq'[r].alone
    <3>1. s \in rivals
      BY <1>7, <2>1, <2>2
    <3> QED
      BY <1>5, <1>7, <1>8, <3>1
  <2>3. ASSUME NEW s \in Requests \ {r}, NEW t \in Requests \ {r}, s # t,
               walletReq'[s].pc # "idle", walletReq'[t].pc # "idle",
               walletReq'[s].kind = walletReq'[t].kind, walletReq'[s].kind \in {"connect", "charge"}
        PROVE  ~walletReq'[s].alone /\ ~walletReq'[t].alone
    <3>1. /\ walletReq[s].pc # "idle" /\ walletReq[t].pc # "idle"
          /\ walletReq[s].kind = walletReq[t].kind /\ walletReq[s].kind \in {"connect", "charge"}
      BY <1>7, <2>3
    <3> QED
      BY <1>1, <1>10, <2>3, <3>1 DEF PairsOK
  <2>4. walletReq'[r].kind = kind
    BY <1>5, <1>8
  <2> QED
    BY <2>2, <2>3, <2>4 DEF PairsOK
<1>12. ConnectsOK'
  <2>1. \A i \in Requests : walletReq'[i].pc = "connect" /\ walletReq'[i].alone =>
            \A w \in wallets : w.address # walletReq'[i].address
    BY <1>1, <1>5, <1>7, <1>8, <1>10 DEF ConnectsOK
  <2> QED
    BY <1>1, <1>3, <2>1 DEF ConnectsOK
<1>13. ChargesOK'
  <2>1. walletReq'[r].pc = "find"
    BY <1>5, <1>8
  <2>2. ASSUME NEW i \in Requests \ {r}
        PROVE  /\ walletReq'[i].pc = "refill" /\ walletReq'[i].alone =>
                     /\ reserve < walletReq'[i].amount
                     /\ walletReq'[i].need = 5 * (walletReq'[i].amount - reserve)
               /\ walletReq'[i].pc = "transfer" /\ walletReq'[i].alone
                     => walletReq'[i].amount <= reserve
    BY <1>1, <1>7, <1>10 DEF ChargesOK
  <2> QED
    BY <1>3, <2>1, <2>2 DEF ChargesOK
<1>14. ASSUME NEW v \in Users \ lapse'
       PROVE  FaucetOK(v)'
  <2>1. FaucetOK(v)
    BY <1>1, <1>3
  <2>2. \A i \in Requests \ {r} : Draws(i, v)' = Draws(i, v)
    BY <1>7 DEF Draws
  <2>3. Draws(r, v)' => \A i \in Requests \ {r} : Draws(i, v) => walletReq[i].pc = "idle"
    <3>1. Draws(r, v)' => kind = "faucet" /\ u = v
      BY <1>5, <1>8 DEF Draws
    <3>2. kind = "faucet" /\ u = v =>
              ~\E i \in Requests \ W!Idle : walletReq[i].kind = "faucet" /\ walletReq[i].user = u
      BY <1>14 DEF W!Begin
    <3> QED
      BY <3>1, <3>2 DEF Draws, W!Idle
  <2>4. Given(v)' = Given(v) /\ LastGrant(v)' = LastGrant(v) /\ grants' = grants
        /\ clock' = clock /\ times' = times
    BY <1>3 DEF Given, LastGrant
  <2>5. walletReq'[r].pc = "find"
    BY <1>5, <1>8
  <2>6. \A i, j \in Requests :
            Draws(i, v)' /\ walletReq'[i].pc # "idle" /\ Draws(j, v)' /\ walletReq'[j].pc # "idle"
                => i = j
    BY <1>7, <2>1, <2>2, <2>3 DEF FaucetOK
  <2>7. ASSUME Given(v), \A i \in Requests : Draws(i, v)' => walletReq'[i].pc \notin {"convert", "log"}
        PROVE  LastGrant(v) <= times[v]
    <3>1. \A i \in Requests : Draws(i, v) => walletReq[i].pc \notin {"convert", "log"}
      BY <1>2, <1>7, <2>2, <2>7
    <3> QED
      BY <2>1, <2>7, <3>1 DEF FaucetOK
  <2>8. \A i \in Requests : Draws(i, v)' /\ walletReq'[i].pc = "give" /\ Given(v)
            => LastGrant(v) + 2 <= clock
    BY <1>7, <2>1, <2>2, <2>5 DEF FaucetOK
  <2>9. \A i \in 1 .. Len(grants[v]) - 1 : grants[v][i + 1] - grants[v][i] >= 2
    BY <2>1 DEF FaucetOK
  <2>10. Given(v) => LastGrant(v) <= clock
    BY <2>1 DEF FaucetOK
  <2> QED
    BY <2>4, <2>6, <2>7, <2>8, <2>9, <2>10 DEF FaucetOK
<1>15. LogsOK'
  <2>1. ASSUME NEW v \in Users
        PROVE  UnloggedParts(walletReq', v) = UnloggedParts(walletReq, v)
    <3>1. \A i \in Requests : Part(walletReq'[i], v) = Part(walletReq[i], v)
      BY <1>2, <1>5, <1>7, <1>8 DEF Part
    <3> QED
      BY <3>1 DEF UnloggedParts
  <2> QED
    BY <1>1, <1>3, <2>1 DEF LogsOK
<1> QED
  BY <1>9, <1>11, <1>12, <1>13, <1>14, <1>15 DEF WalletsInv

-----------------------------------------------------------------------------

(* What a request has given is a whole number.                              *)
LEMMA PartsAreWhole ==
    ASSUME WalletsShape, NEW u
    PROVE  \A r \in Requests : Part(walletReq[r], u) \in Int
<1> SUFFICES ASSUME NEW r \in Requests
             PROVE  Part(walletReq[r], u) \in Int
  OBVIOUS
<1>1. walletReq[r] \in WalletRequest
  BY DEF WalletsShape, RequestOK
<1>2. walletReq[r].amount \in Int
  BY <1>1 DEF WalletRequest
<1> QED
  BY <1>2 DEF Part

(* The sum over the requests of a user is one over all the requests, of what *)
(* each has given that user.                                                *)
LEMMA WalletsUnlogged ==
    ASSUME IsFiniteSet(Requests), WalletsShape, NEW u \in Users
    PROVE  W!UnloggedOf(u) = SumFunctionOnSet(UnloggedParts(walletReq, u), Requests)
<1> DEFINE E == {r \in Requests \ W!Idle : walletReq[r].user = u}
           f == [r \in Requests |-> W!Unlogged(r)]
           g == UnloggedParts(walletReq, u)
<1>1. W!UnloggedOf(u) = SumFunctionOnSet(f, E)
  <2>1. W!UnloggedOf(u) = W!SumFunctionOnSet(f, E)
    BY DEF W!UnloggedOf
  <2> QED
    BY <2>1 DEF W!SumFunctionOnSet, SumFunctionOnSet, W!FoldFunctionOnSet, FoldFunctionOnSet,
                W!MapThenFoldSet, MapThenFoldSet
<1>2. \A r \in Requests : g[r] = Part(walletReq[r], u) /\ g[r] \in Int
  BY PartsAreWhole DEF UnloggedParts
<1>3. E \in SUBSET Requests
  OBVIOUS
<1>4. \A r \in E : g[r] = f[r] /\ f[r] \in Int
  BY <1>2 DEF Part, W!Unlogged
<1>5. \A r \in Requests \ E : g[r] = 0
  BY <1>2 DEF Part, W!Idle
<1> HIDE DEF E, f, g
<1>6. IsFiniteSet(E)
  BY <1>3, FS_Subset
<1>7. SumFunctionOnSet(g, E) = SumFunctionOnSet(f, E)
  BY <1>4, <1>6, SumSame
<1>8. SumFunctionOnSet(g, E) = SumFunctionOnSet(g, Requests)
  BY <1>2, <1>3, <1>5, SumIgnoresZeros
<1> QED
  BY <1>1, <1>7, <1>8 DEF g

(* A restart forgets the requests; what they have given is not logged any   *)
(* more.                                                                    *)
LEMMA RestartingKeeps ==
    ASSUME IsFiniteSet(Requests), WalletsInv, W!Restart
    PROVE  WalletsInv'
<1>1. WalletsShape /\ LogsOK /\ ConnectsOK
  BY DEF WalletsInv
<1>2. UNCHANGED <<wallets, logged, reserve, native, received, clock, grants, forced>>
      /\ lapse' = Users /\ walletReq' = [r \in Requests |-> W!NoRequest]
      /\ lost' = [u \in Users |-> lost[u] + W!UnloggedOf(u)]
      /\ times' = [u \in Users |-> -1]
  BY DEF W!Restart, W!Never
<1>3. \A r \in Requests : walletReq'[r] = W!NoRequest
  BY <1>2
<1>4. ASSUME NEW u \in Users
      PROVE  /\ W!UnloggedOf(u) \in Int
             /\ W!UnloggedOf(u) = SumFunctionOnSet(UnloggedParts(walletReq, u), Requests)
  <2>1. \A r \in Requests : UnloggedParts(walletReq, u)[r] \in Int
    BY <1>1, PartsAreWhole DEF UnloggedParts
  <2>2. SumFunctionOnSet(UnloggedParts(walletReq, u), Requests) \in Int
    BY <2>1, SumType
  <2> QED
    BY <1>1, <2>2, WalletsUnlogged
<1>5. lost \in [Users -> Int]
  BY <1>1 DEF WalletsShape
<1>6. lost' \in [Users -> Int] /\ \A u \in Users : lost'[u] = lost[u] + W!UnloggedOf(u)
  BY <1>2, <1>4, <1>5
<1>7. WalletsShape'
  <2>1. \A r \in Requests : RequestOK(walletReq'[r])
    BY <1>3, NoRequestOK
  <2>2. times' \in [Users -> Int]
    BY <1>2
  <2> QED
    BY <1>1, <1>2, <1>6, <2>1, <2>2 DEF WalletsShape
<1>8. PairsOK' /\ ChargesOK' /\ ConnectsOK'
  BY <1>1, <1>2, <1>3, NoRequestOK DEF PairsOK, ChargesOK, ConnectsOK
<1>9. LogsOK'
  <2>1. ASSUME NEW u \in Users
        PROVE  received'[u] = logged'[u] + lost'[u]
                                  + SumFunctionOnSet(UnloggedParts(walletReq', u), Requests)
    <3>1. \A r \in Requests : UnloggedParts(walletReq', u)[r] = 0
      BY <1>3, NoRequestOK DEF UnloggedParts
    <3>2. SumFunctionOnSet(UnloggedParts(walletReq', u), Requests) = 0
      BY <3>1, SumOfZeros
    <3>3. received[u] = logged[u] + lost[u] + W!UnloggedOf(u)
      BY <1>1, <1>4 DEF LogsOK
    <3>4. received[u] \in Int /\ logged[u] \in Int /\ lost[u] \in Int /\ W!UnloggedOf(u) \in Int
      BY <1>1, <1>4 DEF WalletsShape
    <3> QED
      BY <1>2, <1>6, <3>2, <3>3, <3>4
  <2> QED
    BY <2>1 DEF LogsOK
<1>10. Users \ lapse' = {}
  BY <1>2
<1> QED
  BY <1>7, <1>8, <1>9, <1>10 DEF WalletsInv

(* Time only passes.                                                        *)
LEMMA TickingKeeps ==
    ASSUME WalletsInv, W!Tick
    PROVE  WalletsInv'
<1>1. UNCHANGED <<wallets, logged, reserve, native, received, lost, times, walletReq, grants,
                  lapse, forced>> /\ clock' = clock + 1
  BY DEF W!Tick, W!funds
<1>2. WalletsShape'
  BY <1>1 DEF WalletsInv, WalletsShape
<1>3. PairsOK' /\ ConnectsOK' /\ ChargesOK' /\ LogsOK'
  BY <1>1 DEF WalletsInv, PairsOK, ConnectsOK, ChargesOK, LogsOK
<1>4. ASSUME NEW u \in Users \ lapse'
      PROVE  FaucetOK(u)'
  <2>1. FaucetOK(u) /\ grants \in [Users -> Seq(Nat)] /\ clock \in Nat
    BY <1>1 DEF WalletsInv, WalletsShape
  <2>2. Given(u)' = Given(u) /\ LastGrant(u)' = LastGrant(u)
        /\ \A r \in Requests : Draws(r, u)' = Draws(r, u)
    BY <1>1 DEF Given, LastGrant, Draws
  <2>3. Given(u) => LastGrant(u) \in Nat
    BY <2>1 DEF Given, LastGrant
  <2>4. Given(u) => LastGrant(u) <= clock + 1
    BY <2>1, <2>3 DEF FaucetOK
  <2>5. Given(u) /\ LastGrant(u) + 2 <= clock => LastGrant(u) + 2 <= clock + 1
    BY <2>1, <2>3
  <2> QED
    BY <1>1, <2>1, <2>2, <2>4, <2>5 DEF FaucetOK
<1> QED
  BY <1>2, <1>3, <1>4 DEF WalletsInv

(* Each step of the wallets, the faucet and the charges keeps the           *)
(* invariant.                                                               *)
LEMMA WalletsKept == IsFiniteSet(Requests) /\ WalletsInv /\ [W!Next]_(W!vars) => WalletsInv'
<1> SUFFICES ASSUME IsFiniteSet(Requests), WalletsInv, [W!Next]_(W!vars)
             PROVE  WalletsInv'
  OBVIOUS
<1>1. ASSUME NEW r \in Requests, NEW u \in Users,
             \/ W!Begin(r, "wallet", u, W!NoAddress, FALSE, 0)
             \/ \E a \in W!Address, force \in BOOLEAN : W!Begin(r, "connect", u, a, force, 0)
             \/ W!Begin(r, "faucet", u, W!NoAddress, FALSE, 1)
             \/ \E n \in {2, 3, 4} : W!Begin(r, "charge", u, W!NoAddress, FALSE, n)
      PROVE  WalletsInv'
  <2>1. CASE W!Begin(r, "wallet", u, W!NoAddress, FALSE, 0)
    BY <2>1, BeginningKeeps
  <2>2. CASE \E a \in W!Address, force \in BOOLEAN : W!Begin(r, "connect", u, a, force, 0)
    BY <2>2, BeginningKeeps
  <2>3. CASE W!Begin(r, "faucet", u, W!NoAddress, FALSE, 1)
    BY <2>3, BeginningKeeps
  <2>4. CASE \E n \in {2, 3, 4} : W!Begin(r, "charge", u, W!NoAddress, FALSE, n)
    BY <2>4, BeginningKeeps
  <2> QED
    BY <1>1, <2>1, <2>2, <2>3, <2>4
<1>2. ASSUME NEW r \in Requests,
             \/ W!FindWallet(r) \/ W!AlreadyOwns(r) \/ W!CreateWallet(r)
             \/ W!AddressInUse(r) \/ W!Connect(r) \/ W!ConnectByForce(r)
             \/ W!CheckTime(r) \/ W!Give(r) \/ W!Convert(r) \/ W!Log(r)
             \/ W!Balance(r) \/ W!Refill(r) \/ W!Transfer(r) \/ W!FailStep(r)
      PROVE  WalletsInv'
  BY <1>2, LookingUpKeeps, CheckingTheTimeKeeps, CreatingKeeps, ConnectingKeeps, ForcingKeeps,
     GivingKeeps, LoggingKeeps, BalanceKeeps, RefillKeeps, TransferKeeps, FailingKeeps
<1>3. CASE W!Restart
  BY <1>3, RestartingKeeps
<1>4. CASE W!Tick
  BY <1>4, TickingKeeps
<1>5. CASE UNCHANGED W!vars
  <2>1. UNCHANGED <<wallets, logged, reserve, native, received, lost, times, walletReq, grants,
                    lapse, forced, clock>>
    BY <1>5 DEF W!vars
  <2> QED
    BY <2>1 DEF WalletsInv, WalletsShape, PairsOK, ConnectsOK, ChargesOK, LogsOK, FaucetOK, Given,
                LastGrant, Draws
<1> QED
  BY <1>1, <1>2, <1>3, <1>4, <1>5 DEF W!Next

(* The invariant of the wallets holds in every behaviour.                   *)
LEMMA WalletsInvariant == IsFiniteSet(Requests) => (Spec => []WalletsInv)
<1> SUFFICES ASSUME IsFiniteSet(Requests)
             PROVE  Spec => []WalletsInv
  OBVIOUS
<1>1. Init => WalletsInv
  BY WalletsStart
<1>2. WalletsInv /\ [Next]_vars => WalletsInv'
  BY WalletsStep, WalletsKept
<1> QED
  BY <1>1, <1>2, PTL DEF Spec

(* The faucet keeps its delay to each user whose requests neither overlap   *)
(* nor are cut short, whatever the others ask for.                          *)
THEOREM FaucetKeepsItsDelay ==
    ASSUME IsFiniteSet(Requests)
    PROVE  Spec => []FaucetOncePerDelay
<1>1. WalletsInv => FaucetOncePerDelay
  BY DEF WalletsInv, FaucetOK, FaucetOncePerDelay, W!FaucetOncePerDelay
<1> QED
  BY <1>1, WalletsInvariant, PTL

(* Two wallets hold one account only if a request said so by force, in      *)
(* another spelling, or beside another request to connect.                  *)
THEOREM AccountsOfWalletsDiffer ==
    ASSUME IsFiniteSet(Requests)
    PROVE  Spec => []W!AccountsDiffer
<1>1. WalletsInv => W!AccountsDiffer
  BY DEF WalletsInv, ConnectsOK, W!AccountsDiffer
<1> QED
  BY <1>1, WalletsInvariant, PTL

(* A row of wallets stays as it is but for a request by force of its user.  *)
THEOREM AddressesAreReplacedByForce == Spec => ReplacedOnlyByForce
<1> DEFINE Stay == \A w \in wallets :
               w \in wallets' \/ \E r \in Requests : W!At(r, "update") /\ walletReq[r].user = w.user
<1>1. W!Next => Stay
  <2> SUFFICES ASSUME W!Next, NEW w \in wallets, w \notin wallets'
               PROVE  \E r \in Requests : W!At(r, "update") /\ walletReq[r].user = w.user
    OBVIOUS
  <2>1. ASSUME NEW r \in Requests, W!ConnectByForce(r)
        PROVE  W!At(r, "update") /\ walletReq[r].user = w.user
    BY <2>1 DEF W!ConnectByForce, W!Owned
  <2>2. ASSUME NEW r \in Requests, W!CreateWallet(r) \/ W!Connect(r)
        PROVE  FALSE
    BY <2>2 DEF W!CreateWallet, W!Connect, W!Store
  <2>3. wallets' # wallets
    OBVIOUS
  <2>4. PICK r \in Requests : W!CreateWallet(r) \/ W!Connect(r) \/ W!ConnectByForce(r)
    <3>1. ~W!Restart /\ ~W!Tick
      BY <2>3 DEF W!Restart, W!Tick
    <3>2. ASSUME NEW r \in Requests, NEW kind, NEW u, NEW a, NEW force, NEW n
          PROVE  ~W!Begin(r, kind, u, a, force, n)
      BY <2>3 DEF W!Begin
    <3>3. ASSUME NEW r \in Requests
          PROVE  /\ ~W!FindWallet(r) /\ ~W!AlreadyOwns(r) /\ ~W!AddressInUse(r)
                 /\ ~W!CheckTime(r) /\ ~W!Give(r) /\ ~W!Convert(r) /\ ~W!Log(r)
                 /\ ~W!Balance(r) /\ ~W!Refill(r) /\ ~W!Transfer(r) /\ ~W!FailStep(r)
      BY <2>3 DEF W!FindWallet, W!AlreadyOwns, W!AddressInUse, W!CheckTime, W!Give, W!Convert,
                  W!Log, W!Balance, W!Refill, W!Transfer, W!FailStep
    <3> QED
      BY <3>1, <3>2, <3>3 DEF W!Next
  <2> QED
    BY <2>1, <2>2, <2>4
<1> HIDE DEF Stay
<1>2. [Next]_vars => [Stay]_(W!vars)
  BY <1>1, WalletsStep
<1>3. Spec => [][Stay]_(W!vars)
  BY <1>2, PTL DEF Spec
<1> QED
  BY <1>3 DEF Stay, ReplacedOnlyByForce, W!ReplacedOnlyByForce

(* The failed steps and restarts are counted.                               *)
LEMMA FaultsAreCounted == Spec => [](faults \in Nat)
<1>1. Init => faults \in Nat
  BY DEF Init, W!Init
<1>2. faults \in Nat /\ [W!Next]_(W!vars) => (faults \in Nat)'
  <2> SUFFICES ASSUME faults \in Nat, [W!Next]_(W!vars), faults' # faults
               PROVE  faults' = faults + 1
    OBVIOUS
  <2>1. ASSUME NEW r \in Requests, NEW kind, NEW u, NEW a, NEW force, NEW n
        PROVE  ~W!Begin(r, kind, u, a, force, n)
    BY DEF W!Begin
  <2>2. ASSUME NEW r \in Requests
        PROVE  /\ ~W!FindWallet(r) /\ ~W!AlreadyOwns(r) /\ ~W!AddressInUse(r)
               /\ ~W!CheckTime(r) /\ ~W!Give(r) /\ ~W!Convert(r) /\ ~W!Log(r)
               /\ ~W!Balance(r) /\ ~W!Refill(r) /\ ~W!Transfer(r)
               /\ ~W!CreateWallet(r) /\ ~W!Connect(r) /\ ~W!ConnectByForce(r)
    BY DEF W!FindWallet, W!AlreadyOwns, W!AddressInUse, W!CheckTime, W!Give, W!Convert, W!Log,
           W!Balance, W!Refill, W!Transfer, W!CreateWallet, W!Connect, W!ConnectByForce, W!budget
  <2>3. ~W!Tick /\ ~UNCHANGED W!vars
    BY DEF W!Tick, W!budget, W!vars
  <2>4. W!Restart \/ \E r \in Requests : W!FailStep(r)
    BY <2>1, <2>2, <2>3 DEF W!Next
  <2> QED
    BY <2>4 DEF W!Restart, W!FailStep
<1>3. faults \in Nat /\ [Next]_vars => (faults \in Nat)'
  BY <1>2, WalletsStep
<1> QED
  BY <1>1, <1>3, PTL DEF Spec

(* A charge that nothing interferes with fails only if the operator has not *)
(* the native tokens to convert, or exactly the amount of the charge: what  *)
(* it has seen of the operator's balance holds until it transfers.          *)
THEOREM LoneChargesSucceed ==
    ASSUME IsFiniteSet(Requests)
    PROVE  Spec => ChargeAloneSucceeds
<1> DEFINE Succeeds == \A r \in Requests :
               /\ walletReq[r].kind = "charge" /\ walletReq[r].pc \in {"balance", "refill", "transfer"}
               /\ walletReq'[r].pc = "idle" /\ faults' = faults /\ walletReq[r].alone
               => \/ W!At(r, "balance") /\ reserve = walletReq[r].amount
                  \/ W!At(r, "refill") /\ native < walletReq[r].need
<1>1. WalletsInv /\ faults \in Nat /\ W!Next => Succeeds
  <2> SUFFICES ASSUME WalletsInv, faults \in Nat, W!Next, NEW r \in Requests,
                      walletReq[r].kind = "charge",
                      walletReq[r].pc \in {"balance", "refill", "transfer"},
                      walletReq'[r].pc = "idle", faults' = faults, walletReq[r].alone
               PROVE  \/ W!At(r, "balance") /\ reserve = walletReq[r].amount
                      \/ W!At(r, "refill") /\ native < walletReq[r].need
    OBVIOUS
  <2>1. /\ DOMAIN walletReq = Requests /\ reserve \in Int /\ native \in Int
        /\ RequestOK(walletReq[r]) /\ walletReq[r] \in WalletRequest
    BY DEF WalletsInv, WalletsShape, RequestOK
  <2>2. walletReq[r].need \in Int /\ walletReq[r].amount \in Int
    BY <2>1 DEF WalletRequest
  <2>3. walletReq'[r] # walletReq[r]
    OBVIOUS
  <2>4. ASSUME NEW s \in Requests, s # r, NEW pc, W!Goto(s, pc)
        PROVE  FALSE
    BY <2>1, <2>3, <2>4 DEF W!Goto
  <2>5. ASSUME NEW pc, pc # "idle", W!Goto(r, pc)
        PROVE  FALSE
    <3> DEFINE q == [walletReq[r] EXCEPT !.pc = pc]
    <3>1. walletReq'[r] = q
      BY <2>1, <2>5 DEF W!Goto
    <3>2. q.pc = pc
      BY <2>1 DEF WalletRequest
    <3> QED
      BY <2>5, <3>1, <3>2
  <2>6. ~W!Restart /\ \A s \in Requests : ~W!FailStep(s)
    BY DEF W!Restart, W!FailStep
  <2>7. ~W!Tick
    BY <2>3 DEF W!Tick
  <2>8. ASSUME NEW s \in Requests, NEW kind, NEW u, NEW a, NEW force, NEW n,
               W!Begin(s, kind, u, a, force, n)
        PROVE  FALSE
    <3>1. s # r
      BY <2>8 DEF W!Begin, W!Idle
    <3>2. walletReq'[r] = [walletReq[r] EXCEPT !.alone = @ /\ r \notin W!Rivals(kind, u)]
      BY <2>8, <3>1 DEF W!Begin
    <3> DEFINE q == [walletReq[r] EXCEPT !.alone = @ /\ r \notin W!Rivals(kind, u)]
    <3>3. q.pc = walletReq[r].pc
      BY <2>1 DEF WalletRequest
    <3>4. q.pc = "idle"
      BY <3>2
    <3> QED
      BY <3>3, <3>4
  <2>9. PICK s \in Requests :
            \/ W!FindWallet(s) \/ W!AlreadyOwns(s) \/ W!CreateWallet(s)
            \/ W!AddressInUse(s) \/ W!Connect(s) \/ W!ConnectByForce(s)
            \/ W!CheckTime(s) \/ W!Give(s) \/ W!Convert(s) \/ W!Log(s)
            \/ W!Balance(s) \/ W!Refill(s) \/ W!Transfer(s)
    BY <2>6, <2>7, <2>8 DEF W!Next
  <2>10. s = r
    <3>1. CASE W!Balance(s) /\ reserve # walletReq[s].amount
      BY <2>1, <2>3, <3>1 DEF W!Balance
    <3>2. CASE ~W!Balance(s) \/ reserve = walletReq[s].amount
      <4>1. \E pc : W!Goto(s, pc)
        BY <2>9, <3>2 DEF W!FindWallet, W!AlreadyOwns, W!CreateWallet, W!AddressInUse, W!Connect,
             W!ConnectByForce, W!CheckTime, W!Give, W!Convert, W!Log, W!Balance, W!Refill, W!Transfer
      <4> QED
        BY <2>4, <4>1
    <3> QED
      BY <3>1, <3>2
  <2>11. W!Balance(r) \/ W!Refill(r) \/ W!Transfer(r)
    BY <2>9, <2>10 DEF W!FindWallet, W!AlreadyOwns, W!CreateWallet, W!AddressInUse, W!Connect,
         W!ConnectByForce, W!CheckTime, W!Give, W!Convert, W!Log, W!At
  <2>12. CASE W!Balance(r)
    <3>1. SUFFICES ASSUME reserve # walletReq[r].amount
                   PROVE  FALSE
      BY <2>12 DEF W!Balance
    <3>2a. PICK pc \in {"transfer", "refill"} : \E need :
              walletReq' = [walletReq EXCEPT ![r].pc = pc, ![r].need = need]
      BY <2>12, <3>1 DEF W!Balance
    <3>2. PICK need :
              walletReq' = [walletReq EXCEPT ![r].pc = pc, ![r].need = need]
      BY <3>2a
    <3> DEFINE q == [walletReq[r] EXCEPT !.pc = pc, !.need = need]
    <3>3. walletReq'[r] = q
      BY <2>1, <3>2
    <3>4. q.pc = pc
      BY <2>1 DEF WalletRequest
    <3> QED
      BY <3>3, <3>4
  <2>13. CASE W!Refill(r)
    <3>1. ~W!Goto(r, "transfer")
      BY <2>5
    <3> QED
      BY <2>2, <2>1, <2>13, <3>1 DEF W!Refill
  <2>14. CASE W!Transfer(r)
    <3>1. ~W!Goto(r, "log")
      BY <2>5
    <3>2. walletReq[r].amount <= reserve
      BY <2>14 DEF WalletsInv, ChargesOK, W!Transfer, W!At
    <3> QED
      BY <2>1, <2>2, <2>14, <3>1, <3>2 DEF W!Transfer
  <2> QED
    BY <2>11, <2>12, <2>13, <2>14
<1> HIDE DEF Succeeds
<1>2. WalletsInv /\ faults \in Nat /\ [Next]_vars => [Succeeds]_(W!vars)
  BY <1>1, WalletsStep
<1>3. Spec => []WalletsInv
  BY WalletsInvariant
<1>4. Spec => [][Succeeds]_(W!vars)
  BY <1>2, <1>3, FaultsAreCounted, PTL DEF Spec
<1> QED
  BY <1>4 DEF Succeeds, ChargeAloneSucceeds, W!ChargeAloneSucceeds

=============================================================================
