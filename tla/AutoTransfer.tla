---------------------------- MODULE AutoTransfer ----------------------------
(***************************************************************************)
(* AutoTransferToOrder of internal/service/payment.go: the bank list and   *)
(* the recipient codes are read from Redis, a recipient is created where   *)
(* none is cached, and the transfer is requested, a second time when       *)
(* Paystack refused the recipient.  Calls for different orders run at the  *)
(* same time, in the pollers of different chats, and share both caches;    *)
(* the lock of the order keeps two calls for one reference apart.  A step  *)
(* is one Redis command or one HTTP call.                                  *)
(***************************************************************************)
EXTENDS PaystackTransfers

CONSTANTS Accounts,    \* a bank and an account number of it
          AccountOf,   \* the account of the order a reference pays
          Codes,       \* recipient codes Paystack can give out
          Faults,      \* "redis": a call may fail; "crash": the process may die;
                       \* "paystack": a call may fail or its answer be lost
          NoCode, NoAccount

ASSUME AccountOfAssumption == AccountOf \in [Refs -> Accounts]
ASSUME FaultsAssumption == Faults \subseteq {"redis", "crash", "paystack"}
ASSUME MaxTriesAssumption == MaxTries \in Nat \ {0}
ASSUME NoneAssumption == NoCode \notin Codes /\ NoAccount \notin Accounts

VARIABLES
  banks,      \* mtg:banks:list:NG exists
  cached,     \* mtg:paystack:recipient:...: the code kept for an account
  owner,      \* the account Paystack made a code for
  dead,       \* codes Paystack refuses
  pc,         \* where the call for a reference stands
  code,       \* the code it holds
  refreshed,  \* it is at its second request
  answer,     \* the outcome of the last call
  paidTo      \* accounts a reference's money was sent to

caches   == <<banks, cached>>
paystack == <<transfer, tries, owner, dead, paidTo>>
call     == <<pc, code, refreshed, answer>>
vars     == <<caches, paystack, call>>

Init ==
  /\ transfer = [r \in Refs |-> "none"] /\ tries = [r \in Refs |-> 0]
  /\ banks = FALSE
  /\ cached = [a \in Accounts |-> NoCode]
  /\ owner = [k \in Codes |-> NoAccount]
  /\ dead = {}
  /\ pc = [r \in Refs |-> "idle"]
  /\ code = [r \in Refs |-> NoCode]
  /\ refreshed = [r \in Refs |-> FALSE]
  /\ answer = [r \in Refs |-> "none"]
  /\ paidTo = [r \in Refs |-> {}]

Goto(r, l) == pc' = [pc EXCEPT ![r] = l]

\* The call returns.
Return(r, outcome) ==
  /\ Goto(r, "idle")
  /\ code' = [code EXCEPT ![r] = NoCode]
  /\ refreshed' = [refreshed EXCEPT ![r] = FALSE]
  /\ answer' = [answer EXCEPT ![r] = outcome]

\* An error that is not about the balance, whichever way it is worded.
ReturnError(r) == \E outcome \in {"transient", "terminal"} : Return(r, outcome)

RedisFails    == "redis" \in Faults
PaystackFails == "paystack" \in Faults

-----------------------------------------------------------------------------
(* AutoTransferToOrder *)

Begin(r) ==
  /\ pc[r] = "idle" /\ tries[r] < MaxTries
  /\ Goto(r, "banks")
  /\ answer' = [answer EXCEPT ![r] = "none"]
  /\ UNCHANGED <<caches, paystack, code, refreshed>>

\* FindBankCodeByName, or a request it is not reached for: no account number, no
\* bank name, an amount of nothing.
BankFound(r) ==
  /\ pc[r] = "banks" /\ banks
  /\ Goto(r, "resolve")
  /\ UNCHANGED <<caches, paystack, code, refreshed, answer>>

BankNotFound(r) ==
  /\ pc[r] = "banks"
  /\ Return(r, "terminal") \/ (RedisFails /\ ReturnError(r))
  /\ UNCHANGED <<caches, paystack>>

ResolveAccount(r) ==
  /\ pc[r] = "resolve"
  /\ \/ Goto(r, "lookup") /\ UNCHANGED <<code, refreshed, answer>>
     \/ PaystackFails /\ ReturnError(r)
  /\ UNCHANGED <<caches, paystack>>

\* Mutant: one entry for all accounts.
SharedKey(r) == CHOOSE a \in Accounts : TRUE

\* The key of the recipient cache: country, bank and account number.
Key(r) == AccountOf[r]

\* Mutant: whether the code was found is not looked at.
GetRecipientCodeUnchecked(r) ==
  /\ pc[r] = "lookup"
  /\ code' = [code EXCEPT ![r] = cached[Key(r)]]
  /\ Goto(r, "transfer")
  /\ UNCHANGED <<caches, paystack, refreshed, answer>>

GetRecipientCode(r) ==
  /\ pc[r] = "lookup"
  /\ \/ /\ cached[Key(r)] # NoCode
        /\ code' = [code EXCEPT ![r] = cached[Key(r)]]
        /\ Goto(r, "transfer")
        /\ UNCHANGED <<refreshed, answer>>
     \/ /\ cached[Key(r)] = NoCode
        /\ Goto(r, "create")
        /\ UNCHANGED <<code, refreshed, answer>>
  /\ UNCHANGED <<caches, paystack>>

GetRecipientCodeFails(r) ==
  /\ pc[r] = "lookup" /\ RedisFails
  /\ ReturnError(r)
  /\ UNCHANGED <<caches, paystack>>

\* A code nobody knows: never given out, or refused and forgotten.
Unused(k) ==
  /\ owner[k] = NoAccount \/ k \in dead
  /\ \A a \in Accounts : cached[a] # k
  /\ \A r \in Refs : code[r] # k

\* CreateTransferRecipient returns the account's code, or a new one.
CreateRecipient(r) ==
  /\ pc[r] = "create"
  /\ \E k \in Codes :
       /\ \/ owner[k] = AccountOf[r] /\ k \notin dead
          \/ Unused(k)
       /\ owner' = [owner EXCEPT ![k] = AccountOf[r]]
       /\ dead' = dead \ {k}
       /\ code' = [code EXCEPT ![r] = k]
  /\ Goto(r, "remember")
  /\ UNCHANGED <<caches, transfer, tries, paidTo, refreshed, answer>>

\* A recipient that was created although its answer was lost is forgotten.
CreateRecipientFails(r) ==
  /\ pc[r] = "create" /\ PaystackFails
  /\ ReturnError(r)
  /\ UNCHANGED <<caches, paystack>>

SetRecipientCode(r) ==
  /\ pc[r] = "remember"
  /\ cached' = [cached EXCEPT ![Key(r)] = code[r]]
  /\ Goto(r, "transfer")
  /\ UNCHANGED <<banks, paystack, code, refreshed, answer>>

SetRecipientCodeFails(r) ==
  /\ pc[r] = "remember" /\ RedisFails
  /\ UNCHANGED cached \/ cached' = [cached EXCEPT ![Key(r)] = code[r]]
  /\ ReturnError(r)
  /\ UNCHANGED <<banks, paystack>>

-----------------------------------------------------------------------------
(* InitiateTransfer *)

\* isInvalidRecipientError of Paystack's answer.
Refused(r) == code[r] \in dead

\* Paystack takes the request up for the account of the code it is given.
PaysCode(r) ==
  /\ ~Refused(r)
  /\ TakesUp(r)
  /\ paidTo' = [paidTo EXCEPT ![r] = @ \cup {owner[code[r]]}]
  /\ UNCHANGED <<owner, dead>>

TransferAccepted(r) ==
  /\ pc[r] = "transfer"
  /\ \/ PaysCode(r)
     \/ ~CanTakeUp(r) /\ UNCHANGED paystack
  /\ Return(r, "accepted")
  /\ UNCHANGED caches

\* classifyTransferError: Paystack says that the balance does not suffice.
TransferLacksBalance(r) ==
  /\ pc[r] = "transfer"
  /\ Return(r, "balance")
  /\ UNCHANGED <<caches, paystack>>

\* Refused for another reason, or failed, taken up or not.
TransferFails(r) ==
  /\ pc[r] = "transfer"
  /\ UNCHANGED paystack \/ (PaystackFails /\ PaysCode(r))
  /\ ReturnError(r)
  /\ UNCHANGED caches

\* Mutant: whatever the second request says, the call goes on as if it had worked.
RefusedTwiceIgnored(r) ==
  /\ pc[r] = "transfer" /\ Refused(r)
  /\ refreshed[r]
  /\ Return(r, "accepted")
  /\ UNCHANGED <<caches, paystack>>

\* The second request is refused for its recipient as well: nothing is tried any more.
RefusedTwice(r) ==
  /\ pc[r] = "transfer" /\ Refused(r)
  /\ refreshed[r]
  /\ Return(r, "terminal")
  /\ UNCHANGED <<caches, paystack>>

\* Mutant: every refusal asks for another recipient.
AlwaysRefreshes(r) ==
  /\ pc[r] = "transfer" /\ Refused(r)
  /\ refreshed' = [refreshed EXCEPT ![r] = TRUE]
  /\ code' = [code EXCEPT ![r] = NoCode]
  /\ Goto(r, "create")
  /\ UNCHANGED <<caches, paystack, answer>>

\* The first one is: createAndCacheRecipientCode, once more.
RefreshRecipient(r) ==
  /\ pc[r] = "transfer" /\ Refused(r)
  /\ ~refreshed[r]
  /\ refreshed' = [refreshed EXCEPT ![r] = TRUE]
  /\ code' = [code EXCEPT ![r] = NoCode]
  /\ Goto(r, "create")
  /\ UNCHANGED <<caches, paystack, answer>>

-----------------------------------------------------------------------------
(* The bank list of main.go, the caches' TTLs, Paystack and crashes *)

\* refreshBanks, at the start and every 24 hours.
RefreshBanks ==
  /\ ~banks /\ banks' = TRUE
  /\ UNCHANGED <<cached, paystack, call>>

\* The list's TTL is as long as the time between two refreshes.
BanksExpire ==
  /\ banks /\ banks' = FALSE
  /\ UNCHANGED <<cached, paystack, call>>

\* After 30 days.
RecipientCodeExpires(a) ==
  /\ cached[a] # NoCode
  /\ cached' = [cached EXCEPT ![a] = NoCode]
  /\ UNCHANGED <<banks, paystack, call>>

CodeDies(k) ==
  /\ owner[k] # NoAccount /\ k \notin dead
  /\ dead' = dead \cup {k}
  /\ UNCHANGED <<caches, transfer, tries, owner, paidTo, call>>

TransferSettles(r) ==
  /\ Settles(r)
  /\ UNCHANGED <<caches, owner, dead, paidTo, call>>

Crash ==
  /\ "crash" \in Faults
  /\ pc' = [r \in Refs |-> "idle"]
  /\ code' = [r \in Refs |-> NoCode]
  /\ refreshed' = [r \in Refs |-> FALSE]
  /\ UNCHANGED <<caches, paystack, answer>>

-----------------------------------------------------------------------------

CallStep(r) ==
  \/ BankFound(r) \/ BankNotFound(r) \/ ResolveAccount(r)
  \/ GetRecipientCode(r) \/ GetRecipientCodeFails(r)
  \/ CreateRecipient(r) \/ CreateRecipientFails(r)
  \/ SetRecipientCode(r) \/ SetRecipientCodeFails(r)
  \/ TransferAccepted(r) \/ TransferLacksBalance(r) \/ TransferFails(r)
  \/ RefusedTwice(r) \/ RefreshRecipient(r)

Next ==
  \/ \E r \in Refs : Begin(r) \/ CallStep(r) \/ TransferSettles(r)
  \/ \E a \in Accounts : RecipientCodeExpires(a)
  \/ \E k \in Codes : CodeDies(k)
  \/ RefreshBanks \/ BanksExpire \/ Crash

Spec == Init /\ [][Next]_vars

-----------------------------------------------------------------------------
(* Properties *)

TypeOK ==
  /\ banks \in BOOLEAN
  /\ cached \in [Accounts -> Codes \cup {NoCode}]
  /\ transfer \in [Refs -> {"none", "pending", "success", "failed"}]
  /\ tries \in [Refs -> 0..MaxTries]
  /\ owner \in [Codes -> Accounts \cup {NoAccount}]
  /\ dead \subseteq Codes
  /\ paidTo \in [Refs -> SUBSET (Accounts \cup {NoAccount})]
  /\ pc \in [Refs -> {"idle", "banks", "resolve", "lookup", "create", "remember",
                      "transfer"}]
  /\ code \in [Refs -> Codes \cup {NoCode}]
  /\ \A r \in Refs : pc[r] \in {"remember", "transfer"} => code[r] \in Codes
  /\ refreshed \in [Refs -> BOOLEAN]
  /\ answer \in [Refs -> TransferOutcome \cup {"none"}]

\* The money of a reference goes to the account of its own order, whatever codes
\* the calls for other orders cache meanwhile, and however often a code is
\* refused, replaced or has expired.
PaysOwnAccount == \A r \in Refs : paidTo[r] \subseteq {AccountOf[r]}

\* A call implements TransferService: it touches its reference once at most, in
\* the request it answers with, although it may make two; "accepted" means that
\* there is a transfer, "balance" that this call has started none.
Service == INSTANCE TransferService WITH calls <- {r \in Refs : pc[r] # "idle"}
ImplementsService == Service!Spec

\* Every call comes to an end: a recipient that is refused time and again does
\* not keep the poller, and the lock of its order, for ever.
CallReturns == \A r \in Refs : pc[r] # "idle" ~> pc[r] = "idle"

\* What notes/main-cleanup-baseline.md:158 says, "Treat recipient cache as
\* optimization": a call that gets as far as the cache, and of which Paystack
\* refuses nothing, is not failed by the cache.
CacheIsOptional ==
  [][\A r \in Refs :
       pc[r] \in {"lookup", "remember"} => answer'[r] # "terminal"]_vars

\* A call's goroutine keeps running: the client's timeout is 15 seconds.
FairSpec == Spec /\ \A r \in Refs : WF_vars(CallStep(r))
=============================================================================
