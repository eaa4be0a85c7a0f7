------------------------- MODULE AutoTransfer_proofs -------------------------
(***************************************************************************)
(* For any number of orders, accounts and recipient codes, with caches     *)
(* that forget, codes that die, calls that fail and crashes: the money of  *)
(* a reference goes to its own order's account, and a call is one step of  *)
(* TransferService.                                                        *)
(***************************************************************************)
EXTENDS AutoTransfer, TLAPS

(* The inductive invariant: PaysOwnAccount is about what has been paid; it *)
(* holds because a code that is cached, or that a call has in hand, is     *)
(* never given to another account, even when Paystack has refused it.      *)

Step == {"idle", "banks", "resolve", "lookup", "create", "remember", "transfer"}

\* A code is kept under the account it was made for.
CachedIsOwn == \A a \in Accounts : cached[a] # NoCode => owner[cached[a]] = a

\* A call has a code of its own order's account.
HeldIsOwn == \A r \in Refs : code[r] # NoCode => owner[code[r]] = AccountOf[r]

PaystackTypes ==
  /\ transfer \in [Refs -> {"none", "pending", "success", "failed"}]
  /\ tries \in [Refs -> 0..MaxTries]
  /\ owner \in [Codes -> Accounts \cup {NoAccount}]
  /\ dead \subseteq Codes
  /\ paidTo \in [Refs -> SUBSET (Accounts \cup {NoAccount})]

CacheTypes == banks \in BOOLEAN /\ cached \in [Accounts -> Codes \cup {NoCode}]

CallTypes ==
  /\ pc \in [Refs -> Step]
  /\ code \in [Refs -> Codes \cup {NoCode}]
  /\ \A r \in Refs : pc[r] \in {"remember", "transfer"} => code[r] \in Codes
  /\ refreshed \in [Refs -> BOOLEAN]
  /\ answer \in [Refs -> TransferOutcome \cup {"none"}]

IInv ==
  /\ PaystackTypes /\ CacheTypes /\ CallTypes
  /\ CachedIsOwn /\ HeldIsOwn /\ PaysOwnAccount

-----------------------------------------------------------------------------
(* What a step leaves alone *)

\* What the invariant says of Paystack when Paystack does nothing.
LEMMA PaystackAlone ==
  ASSUME PaystackTypes, PaysOwnAccount, UNCHANGED paystack
  PROVE  PaystackTypes' /\ PaysOwnAccount'
BY DEF PaystackTypes, PaysOwnAccount, paystack

\* The caches, when they are not written and no code changes its owner.
LEMMA CachesAlone ==
  ASSUME CacheTypes, CachedIsOwn, UNCHANGED <<caches, owner>>
  PROVE  CacheTypes' /\ CachedIsOwn'
BY DEF CacheTypes, CachedIsOwn, caches

\* The calls, when none moves and no code changes its owner.
LEMMA CallsAlone ==
  ASSUME CallTypes, HeldIsOwn, UNCHANGED <<call, owner>>
  PROVE  CallTypes' /\ HeldIsOwn'
BY DEF CallTypes, HeldIsOwn, call

\* A call that returns has no code, whatever its outcome.
LEMMA ReturnKeeps ==
  ASSUME CallTypes, HeldIsOwn, NEW r \in Refs, UNCHANGED owner,
         NEW outcome \in TransferOutcome, Return(r, outcome)
  PROVE  CallTypes' /\ HeldIsOwn'
<1>1. /\ pc' = [pc EXCEPT ![r] = "idle"] /\ code' = [code EXCEPT ![r] = NoCode]
      /\ refreshed' = [refreshed EXCEPT ![r] = FALSE]
      /\ answer' = [answer EXCEPT ![r] = outcome]
  BY DEF Return, Goto
<1>2. CallTypes'
  BY <1>1 DEF CallTypes, Step
<1>3. HeldIsOwn'
  BY <1>1 DEF CallTypes, HeldIsOwn
<1> QED BY <1>2, <1>3

\* A call that goes on, with a code that is its own account's or with none.
LEMMA GoesOn ==
  ASSUME CallTypes, HeldIsOwn, NEW r \in Refs, UNCHANGED owner, NEW l \in Step, Goto(r, l),
         NEW k \in Codes \cup {NoCode}, code' = [code EXCEPT ![r] = k],
         k # NoCode => owner[k] = AccountOf[r],
         l \in {"remember", "transfer"} => k # NoCode,
         refreshed' = refreshed \/ refreshed' = [refreshed EXCEPT ![r] = TRUE],
         answer' = answer \/ answer' = [answer EXCEPT ![r] = "none"]
  PROVE  CallTypes' /\ HeldIsOwn'
<1>1. CallTypes'
  BY DEF CallTypes, Goto
<1>2. HeldIsOwn'
  BY DEF CallTypes, HeldIsOwn
<1> QED BY <1>1, <1>2

\* What a call has in hand when it uses its code.
LEMMA CodeInHand ==
  ASSUME IInv, NEW r \in Refs, pc[r] \in {"remember", "transfer"}
  PROVE  code[r] \in Codes /\ code[r] # NoCode /\ owner[code[r]] = AccountOf[r]
BY NoneAssumption DEF IInv, CallTypes, HeldIsOwn

-----------------------------------------------------------------------------
(* One lemma per step of a call *)

\* The steps that use neither a code nor the recipient cache.
LEMMA StartPreserves ==
  ASSUME IInv, NEW r \in Refs, Begin(r) \/ BankFound(r) \/ ResolveAccount(r)
                               \/ BankNotFound(r) \/ GetRecipientCodeFails(r)
                               \/ CreateRecipientFails(r)
  PROVE  IInv'
<1> USE DEF IInv
<1>1. UNCHANGED <<caches, paystack, owner>>
  BY DEF Begin, BankFound, ResolveAccount, BankNotFound, GetRecipientCodeFails,
         CreateRecipientFails, paystack
<1>2. CallTypes' /\ HeldIsOwn'
  <2>1. CASE \E outcome \in TransferOutcome : Return(r, outcome)
    BY <1>1, <2>1, ReturnKeeps
  <2>2. CASE /\ \E l \in {"banks", "resolve", "lookup"} : Goto(r, l)
             /\ UNCHANGED <<code, refreshed>>
             /\ answer' = answer \/ answer' = [answer EXCEPT ![r] = "none"]
    <3>1. code[r] \in Codes \cup {NoCode} /\ code' = [code EXCEPT ![r] = code[r]]
          /\ (code[r] # NoCode => owner[code[r]] = AccountOf[r])
      BY <2>2 DEF CallTypes, HeldIsOwn
    <3>2. PICK l \in {"banks", "resolve", "lookup"} : Goto(r, l)
      BY <2>2
    <3>3. l \in Step /\ l \notin {"remember", "transfer"}
      BY DEF Step
    <3> QED BY <1>1, <2>2, <3>1, <3>2, <3>3, GoesOn
  <2> QED
    BY <2>1, <2>2 DEF Begin, BankFound, ResolveAccount, BankNotFound, ReturnError,
                      GetRecipientCodeFails, CreateRecipientFails, TransferOutcome
<1> QED BY <1>1, <1>2, PaystackAlone, CachesAlone

\* The code in the cache is of the account that its key names.
LEMMA GetRecipientCodePreserves ==
  ASSUME IInv, NEW r \in Refs, GetRecipientCode(r) PROVE IInv'
<1> USE DEF IInv
<1>1. UNCHANGED <<caches, paystack, owner, refreshed, answer>>
  BY DEF GetRecipientCode, paystack
<1>2. CASE cached[Key(r)] # NoCode
  <2>1. AccountOf[r] \in Accounts /\ Key(r) = AccountOf[r]
    BY AccountOfAssumption DEF Key
  <2>2. cached[Key(r)] \in Codes /\ owner[cached[Key(r)]] = AccountOf[r]
    BY <1>2, <2>1 DEF CacheTypes, CachedIsOwn
  <2>3. code' = [code EXCEPT ![r] = cached[Key(r)]] /\ Goto(r, "transfer")
    BY <1>2 DEF GetRecipientCode
  <2>4. CallTypes' /\ HeldIsOwn'
    BY <1>1, <1>2, <2>2, <2>3, GoesOn DEF Step
  <2> QED BY <1>1, <2>4, PaystackAlone, CachesAlone
<1>3. CASE cached[Key(r)] = NoCode
  <2>1. code' = code /\ Goto(r, "create")
    BY <1>3 DEF GetRecipientCode
  <2>2. code[r] \in Codes \cup {NoCode} /\ code' = [code EXCEPT ![r] = code[r]]
        /\ (code[r] # NoCode => owner[code[r]] = AccountOf[r])
    BY <2>1 DEF CallTypes, HeldIsOwn
  <2>3. CallTypes' /\ HeldIsOwn'
    BY <1>1, <2>1, <2>2, GoesOn DEF Step
  <2> QED BY <1>1, <2>3, PaystackAlone, CachesAlone
<1> QED BY <1>2, <1>3

\* Paystack gives the call a code of its account: one it has, or one nobody keeps.
LEMMA CreateRecipientPreserves ==
  ASSUME IInv, NEW r \in Refs, CreateRecipient(r) PROVE IInv'
<1> USE DEF IInv
<1>1. PICK k \in Codes : /\ owner[k] = AccountOf[r] \/ Unused(k)
                         /\ owner' = [owner EXCEPT ![k] = AccountOf[r]]
                         /\ dead' = dead \ {k}
                         /\ code' = [code EXCEPT ![r] = k]
  BY DEF CreateRecipient
<1>2. /\ Goto(r, "remember")
      /\ UNCHANGED <<caches, transfer, tries, paidTo, refreshed, answer>>
  BY DEF CreateRecipient
<1>3. AccountOf[r] \in Accounts /\ k # NoCode
  BY AccountOfAssumption, NoneAssumption
<1>4. \A l \in Codes : l # k => owner'[l] = owner[l]
  BY <1>1 DEF PaystackTypes
<1>5. owner'[k] = AccountOf[r]
  BY <1>1 DEF PaystackTypes
<1>6. PaystackTypes' /\ PaysOwnAccount'
  BY <1>1, <1>2, <1>3 DEF PaystackTypes, PaysOwnAccount
<1>7. CacheTypes' /\ CachedIsOwn'
  <2>1. \A a \in Accounts : cached[a] # NoCode => owner'[cached[a]] = a
    BY <1>1, <1>4, <1>5 DEF CacheTypes, CachedIsOwn, Unused
  <2> QED BY <1>2, <2>1 DEF CacheTypes, CachedIsOwn, caches
<1>8. CallTypes'
  BY <1>1, <1>2 DEF CallTypes, Step, Goto
<1>9. HeldIsOwn'
  <2>1. ASSUME NEW q \in Refs, q # r, code[q] # NoCode PROVE owner'[code[q]] = AccountOf[q]
    BY <1>1, <1>4, <1>5, <2>1 DEF CallTypes, HeldIsOwn, Unused
  <2> QED BY <1>1, <1>5, <2>1 DEF CallTypes, HeldIsOwn
<1> QED BY <1>6, <1>7, <1>8, <1>9

\* The code is kept under the account it was made for, whether the call hears of it
\* or not.
LEMMA SetRecipientCodePreserves ==
  ASSUME IInv, NEW r \in Refs, SetRecipientCode(r) \/ SetRecipientCodeFails(r) PROVE IInv'
<1> USE DEF IInv
<1>1. /\ pc[r] = "remember" /\ UNCHANGED <<banks, paystack, owner>>
      /\ cached' = cached \/ cached' = [cached EXCEPT ![Key(r)] = code[r]]
  BY DEF SetRecipientCode, SetRecipientCodeFails, paystack
<1>2. code[r] \in Codes /\ code[r] # NoCode /\ owner[code[r]] = AccountOf[r]
  BY <1>1, CodeInHand
<1>3. CacheTypes' /\ CachedIsOwn'
  BY <1>1, <1>2, AccountOfAssumption DEF CacheTypes, CachedIsOwn, Key
<1>4. CallTypes' /\ HeldIsOwn'
  <2>1. CASE SetRecipientCodeFails(r)
    BY <1>1, <2>1, ReturnKeeps DEF SetRecipientCodeFails, ReturnError, TransferOutcome
  <2>2. CASE SetRecipientCode(r)
    <3>1. code' = [code EXCEPT ![r] = code[r]]
      BY <2>2 DEF SetRecipientCode, CallTypes
    <3> QED BY <1>1, <1>2, <2>2, <3>1, GoesOn DEF SetRecipientCode, Step
  <2> QED BY <2>1, <2>2
<1> QED BY <1>1, <1>3, <1>4, PaystackAlone

\* Paystack pays the account of the code, which is the order's.
LEMMA PaysCodeKeeps ==
  ASSUME IInv, NEW r \in Refs, pc[r] = "transfer", PaysCode(r)
  PROVE  PaystackTypes' /\ PaysOwnAccount'
<1> USE DEF IInv
<1>1. owner[code[r]] = AccountOf[r] /\ AccountOf[r] \in Accounts
  BY CodeInHand, AccountOfAssumption
<1>2. /\ transfer' = [transfer EXCEPT ![r] = "pending"]
      /\ tries[r] < MaxTries /\ tries' = [tries EXCEPT ![r] = @ + 1]
      /\ paidTo' = [paidTo EXCEPT ![r] = @ \cup {AccountOf[r]}]
      /\ UNCHANGED <<owner, dead>>
  BY <1>1 DEF PaysCode, TakesUp
<1>3. PaystackTypes'
  BY <1>1, <1>2, MaxTriesAssumption DEF PaystackTypes
<1>4. PaysOwnAccount'
  BY <1>2 DEF PaystackTypes, PaysOwnAccount
<1> QED BY <1>3, <1>4

\* InitiateTransfer and what the call makes of its answer.
LEMMA TransferPreserves ==
  ASSUME IInv, NEW r \in Refs, TransferAccepted(r) \/ TransferLacksBalance(r)
                               \/ TransferFails(r) \/ RefusedTwice(r)
  PROVE  IInv'
<1> USE DEF IInv, TransferAccepted, TransferLacksBalance, TransferFails, RefusedTwice
<1>1. PaystackTypes' /\ PaysOwnAccount'
  BY PaysCodeKeeps, PaystackAlone
<1>2. UNCHANGED <<caches, owner>>
  BY DEF PaysCode, paystack
<1>3. CallTypes' /\ HeldIsOwn'
  BY <1>2, ReturnKeeps DEF ReturnError, TransferOutcome
<1> QED BY <1>1, <1>2, <1>3, CachesAlone

\* The second request starts with no code.
LEMMA RefreshPreserves == ASSUME IInv, NEW r \in Refs, RefreshRecipient(r) PROVE IInv'
<1> USE DEF IInv, RefreshRecipient
<1>1. UNCHANGED <<caches, paystack, owner>>
  BY DEF paystack
<1>2. CallTypes' /\ HeldIsOwn'
  BY <1>1, GoesOn DEF Step
<1> QED BY <1>1, <1>2, PaystackAlone, CachesAlone

\* Every step of a call.
LEMMA CallPreserves == ASSUME IInv, NEW r \in Refs, Begin(r) \/ CallStep(r) PROVE IInv'
BY StartPreserves, GetRecipientCodePreserves, CreateRecipientPreserves,
   SetRecipientCodePreserves, TransferPreserves, RefreshPreserves DEF CallStep

\* The caches' TTLs, the bank list, the end of a code, the outcome of a transfer and
\* a crash take away, or move on, but give no code to anyone.
LEMMA EnvironmentPreserves ==
  ASSUME IInv, \/ RefreshBanks \/ BanksExpire \/ Crash
               \/ \E a \in Accounts : RecipientCodeExpires(a)
               \/ \E k \in Codes : CodeDies(k)
               \/ \E r \in Refs : TransferSettles(r)
  PROVE  IInv'
<1> USE DEF IInv
<1>1. CASE RefreshBanks \/ BanksExpire
  <2>1. CacheTypes' /\ CachedIsOwn'
    BY <1>1 DEF RefreshBanks, BanksExpire, CacheTypes, CachedIsOwn, paystack
  <2> QED
    BY <1>1, <2>1, PaystackAlone, CallsAlone DEF RefreshBanks, BanksExpire, paystack
<1>2. CASE \E a \in Accounts : RecipientCodeExpires(a)
  <2>1. CacheTypes' /\ CachedIsOwn'
    BY <1>2 DEF RecipientCodeExpires, CacheTypes, CachedIsOwn, paystack
  <2> QED
    BY <1>2, <2>1, PaystackAlone, CallsAlone DEF RecipientCodeExpires, paystack
<1>3. CASE \E k \in Codes : CodeDies(k)
  <2>1. PaystackTypes' /\ PaysOwnAccount'
    BY <1>3 DEF CodeDies, PaystackTypes, PaysOwnAccount
  <2> QED BY <1>3, <2>1, CachesAlone, CallsAlone DEF CodeDies
<1>4. CASE \E r \in Refs : TransferSettles(r)
  <2>1. PaystackTypes' /\ PaysOwnAccount'
    BY <1>4 DEF TransferSettles, Settles, PaystackTypes, PaysOwnAccount
  <2> QED BY <1>4, <2>1, CachesAlone, CallsAlone DEF TransferSettles
<1>5. CASE Crash
  <2>1. CallTypes' /\ HeldIsOwn'
    BY <1>5 DEF Crash, CallTypes, HeldIsOwn, Step
  <2> QED BY <1>5, <2>1, PaystackAlone, CachesAlone DEF Crash, paystack
<1> QED BY <1>1, <1>2, <1>3, <1>4, <1>5

-----------------------------------------------------------------------------
(* The invariants *)

\* At the start nothing is cached, held or paid.
LEMMA Initially == Init => IInv
<1> SUFFICES ASSUME Init PROVE IInv
  OBVIOUS
<1>1. PaystackTypes /\ PaysOwnAccount
  BY MaxTriesAssumption DEF Init, PaystackTypes, PaysOwnAccount
<1>2. CacheTypes /\ CachedIsOwn
  BY DEF Init, CacheTypes, CachedIsOwn
<1>3. CallTypes /\ HeldIsOwn
  BY DEF Init, CallTypes, Step, HeldIsOwn
<1> QED BY <1>1, <1>2, <1>3 DEF IInv

\* Every step keeps the invariant.
LEMMA StepPreserves == IInv /\ [Next]_vars => IInv'
<1> SUFFICES ASSUME IInv, [Next]_vars PROVE IInv'
  OBVIOUS
<1>1. CASE UNCHANGED vars
  BY <1>1, PaystackAlone, CachesAlone, CallsAlone DEF IInv, vars, paystack
<1>2. CASE \E r \in Refs : Begin(r) \/ CallStep(r)
  BY <1>2, CallPreserves
<1> QED BY <1>1, <1>2, EnvironmentPreserves DEF Next

\* The invariant holds in every state of a behaviour.
LEMMA Invariance == Spec => []IInv
BY Initially, StepPreserves, PTL DEF Spec

\* Every variable keeps its type, and a call has a code when it uses one.
THEOREM TypeCorrect == Spec => []TypeOK
<1>1. IInv => TypeOK
  BY DEF IInv, PaystackTypes, CacheTypes, CallTypes, Step, TypeOK
<1> QED BY <1>1, Invariance, PTL

\* Whatever codes the calls for other orders cache meanwhile, and however often one
\* is refused or forgotten, the money of a reference goes to its own account.
THEOREM PaidToOwnAccount == Spec => []PaysOwnAccount
<1>1. IInv => PaysOwnAccount
  BY DEF IInv
<1> QED BY <1>1, Invariance, PTL

-----------------------------------------------------------------------------
(* The refinement of TransferService *)

\* A call that returns answers, if what Paystack did fits the outcome.
LEMMA ReturnAnswers ==
  ASSUME IInv, NEW r \in Refs, pc[r] # "idle",
         NEW outcome \in TransferOutcome, Return(r, outcome), Requested(r, outcome)
  PROVE  Service!Answer(r)
<1>1. {q \in Refs : pc'[q] # "idle"} = {q \in Refs : pc[q] # "idle"} \ {r}
  BY DEF IInv, CallTypes, Return, Goto
<1>2. answer' = [answer EXCEPT ![r] = outcome]
  BY DEF Return
<1>3. Service!Requested(r, outcome) /\ outcome \in Service!TransferOutcome
  BY DEF Requested, TakesUp, CanTakeUp, TransferOutcome, Service!Requested, Service!TakesUp,
         Service!CanTakeUp, Service!TransferOutcome
<1> QED BY <1>1, <1>2, <1>3 DEF Service!Answer

\* A call that fails before its request, or that Paystack leaves unanswered.
LEMMA FailureAnswers ==
  ASSUME IInv, NEW r \in Refs, pc[r] # "idle",
         NEW outcome \in {"balance", "transient", "terminal"}, Return(r, outcome),
         UNCHANGED <<transfer, tries>>
  PROVE  Service!Answer(r)
BY ReturnAnswers DEF Requested, TransferOutcome

\* A call in the middle of its way.
LEMMA GoesOnStutters ==
  ASSUME IInv, NEW r \in Refs, pc[r] # "idle", NEW l \in Step \ {"idle"}, Goto(r, l),
         UNCHANGED <<transfer, tries, answer>>
  PROVE  UNCHANGED Service!vars
<1>1. {q \in Refs : pc'[q] # "idle"} = {q \in Refs : pc[q] # "idle"}
  BY DEF IInv, CallTypes, Goto
<1> QED BY <1>1 DEF Service!vars

\* A step of a call is its start, its answer, or nothing that TransferService sees.
LEMMA CallRefines ==
  ASSUME IInv, NEW r \in Refs, Begin(r) \/ CallStep(r)
  PROVE  Service!Call(r) \/ Service!Answer(r) \/ UNCHANGED Service!vars
<1>1. CASE Begin(r)
  <2>1. {q \in Refs : pc'[q] # "idle"} = {q \in Refs : pc[q] # "idle"} \cup {r}
    BY <1>1 DEF IInv, CallTypes, Begin, Goto
  <2> QED BY <1>1, <2>1 DEF Begin, paystack, Service!Call
<1>2. CASE BankFound(r) \/ GetRecipientCode(r) \/ CreateRecipient(r)
           \/ SetRecipientCode(r) \/ RefreshRecipient(r)
  <2>1. pc[r] # "idle" /\ UNCHANGED <<transfer, tries, answer>>
        /\ \E l \in Step \ {"idle"} : Goto(r, l)
    BY <1>2 DEF BankFound, GetRecipientCode, CreateRecipient, SetRecipientCode,
                RefreshRecipient, paystack, Step
  <2> QED BY <2>1, GoesOnStutters
<1>3. CASE BankNotFound(r) \/ GetRecipientCodeFails(r) \/ CreateRecipientFails(r)
           \/ SetRecipientCodeFails(r) \/ TransferLacksBalance(r) \/ RefusedTwice(r)
  <2>1. pc[r] # "idle" /\ UNCHANGED <<transfer, tries>>
        /\ \E outcome \in {"balance", "transient", "terminal"} : Return(r, outcome)
    BY <1>3 DEF BankNotFound, GetRecipientCodeFails, CreateRecipientFails,
                SetRecipientCodeFails, TransferLacksBalance, RefusedTwice, ReturnError,
                paystack
  <2> QED BY <2>1, FailureAnswers
<1>4. CASE ResolveAccount(r)
  <2>1. pc[r] # "idle" /\ UNCHANGED <<transfer, tries>>
    BY <1>4 DEF ResolveAccount, paystack
  <2>2. CASE Goto(r, "lookup") /\ UNCHANGED answer
    BY <2>1, <2>2, GoesOnStutters DEF Step
  <2>3. CASE ReturnError(r)
    BY <2>1, <2>3, FailureAnswers DEF ReturnError
  <2> QED BY <1>4, <2>2, <2>3 DEF ResolveAccount
<1>5. CASE TransferAccepted(r)
  <2>1. Requested(r, "accepted")
    BY <1>5 DEF TransferAccepted, PaysCode, Requested, paystack
  <2> QED BY <1>5, <2>1, ReturnAnswers DEF TransferAccepted, TransferOutcome
<1>6. CASE TransferFails(r)
  <2>1. PICK outcome \in {"transient", "terminal"} : Return(r, outcome)
    BY <1>6 DEF TransferFails, ReturnError
  <2>2. Requested(r, outcome)
    BY <1>6 DEF TransferFails, PaysCode, Requested, paystack
  <2> QED BY <1>6, <2>1, <2>2, ReturnAnswers DEF TransferFails, TransferOutcome
<1> QED BY <1>1, <1>2, <1>3, <1>4, <1>5, <1>6 DEF CallStep

\* Every step is a step of TransferService or nothing that it sees.
LEMMA StepRefines == IInv /\ [Next]_vars => [Service!Next]_(Service!vars)
<1> SUFFICES ASSUME IInv, [Next]_vars PROVE Service!Next \/ UNCHANGED Service!vars
  OBVIOUS
<1>1. CASE \E r \in Refs : Begin(r) \/ CallStep(r)
  BY <1>1, CallRefines DEF Service!Next
<1>2. CASE \E r \in Refs : TransferSettles(r)
  <2>1. PICK r \in Refs : TransferSettles(r)
    BY <1>2
  <2>2. Service!Settle(r)
    BY <2>1 DEF TransferSettles, Settles, call, Service!Settle, Service!Settles
  <2> QED BY <2>2 DEF Service!Next
<1>3. CASE Crash
  <2>1. {q \in Refs : pc'[q] # "idle"} = {}
    BY <1>3 DEF Crash
  <2> QED BY <1>3, <2>1 DEF Crash, paystack, Service!Next, Service!Die
<1>4. CASE UNCHANGED <<transfer, tries, pc, answer>>
  BY <1>4 DEF Service!vars
<1> QED
  BY <1>1, <1>2, <1>3, <1>4
     DEF Next, RecipientCodeExpires, CodeDies, RefreshBanks, BanksExpire, vars, paystack, call

\* No call is under way at the start.
LEMMA InitRefines == Init => Service!Init
BY DEF Init, Service!Init

\* AutoTransferToOrder is the service that the pollers rely on.
THEOREM ServiceRefined == Spec => ImplementsService
BY Invariance, InitRefines, StepRefines, PTL DEF Spec, ImplementsService, Service!Spec
=============================================================================
