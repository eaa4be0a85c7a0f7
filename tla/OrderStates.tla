---------------------------- MODULE OrderStates ----------------------------
(***************************************************************************)
(* The vocabulary of an order's life, shared by every component: the order *)
(* state machine of internal/service/workflow.go and the payment intent    *)
(* statuses of internal/service/payment_intent.go.  The module has no      *)
(* state.                                                                  *)
(***************************************************************************)
EXTENDS Naturals

Terminal  == {"FAILED_DETAIL", "TIMED_OUT", "PAID"}
Resumable == {"DETECTED", "DETAIL_FETCHING", "RETRYING_DETAIL", "DETAIL_READY",
              "PAYMENT_PENDING_EXTERNAL"}
OrderState == Resumable \cup Terminal

OrderEvent == {"ORDER_INGESTED", "DETAIL_FETCH_OK", "DETAIL_FETCH_RETRYABLE_ERR",
               "DETAIL_FETCH_FATAL_ERR", "RETRY_TIMER_FIRED", "ORDER_EXPIRED",
               "HANDOFF_TO_PAYMENT", "PAYMENT_CONFIRMED"}

\* orderTransitions: the edges <<from, event, to>>; every state that is not
\* terminal also has an edge to TIMED_OUT.
OrderTransitions ==
  {<<"DETECTED",        "ORDER_INGESTED",             "DETAIL_FETCHING">>,
   <<"DETAIL_FETCHING", "DETAIL_FETCH_OK",            "DETAIL_READY">>,
   <<"DETAIL_FETCHING", "DETAIL_FETCH_RETRYABLE_ERR", "RETRYING_DETAIL">>,
   <<"DETAIL_FETCHING", "DETAIL_FETCH_FATAL_ERR",     "FAILED_DETAIL">>,
   <<"RETRYING_DETAIL", "RETRY_TIMER_FIRED",          "DETAIL_FETCHING">>,
   <<"DETAIL_READY",    "HANDOFF_TO_PAYMENT",         "PAYMENT_PENDING_EXTERNAL">>,
   <<"PAYMENT_PENDING_EXTERNAL", "PAYMENT_CONFIRMED", "PAID">>}
  \cup {<<s, "ORDER_EXPIRED", "TIMED_OUT">> : s \in Resumable}

IsTerminalOrderState(s) == s \in Terminal

\* ApplyOrderEvent(from, event) returns no error.
CanApply(from, event) ==
  /\ ~IsTerminalOrderState(from)
  /\ \E to \in OrderState : <<from, event, to>> \in OrderTransitions

ApplyOrderEvent(from, event) ==
  CHOOSE to \in OrderState : <<from, event, to>> \in OrderTransitions

-----------------------------------------------------------------------------

IntentStatus == {"INITIATED", "TRANSFER_PENDING", "TRANSFER_SUCCESS",
                 "TRANSFER_FAILED", "INSUFFICIENT_FUNDS",
                 "PROVIDER_MARKED_PAID", "PROVIDER_MARK_FAILED"}

\* The states an order can be in once its payment has been handed off.
HandedOff == {"PAYMENT_PENDING_EXTERNAL", "PAID", "TIMED_OUT"}
=============================================================================
