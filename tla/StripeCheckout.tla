--------------------------- MODULE StripeCheckout ---------------------------
(***************************************************************************)
(* Payments through Stripe (api/src/marketplace/stripe_handlers.rs): a     *)
(* checkout, the events by which Stripe reports that it was paid, and the  *)
(* license the webhook issues.  Stripe delivers an event until it gets a   *)
(* 2xx answer, if need be several times at once.                           *)
(***************************************************************************)
EXTENDS Naturals

CONSTANTS
    Payments,
    Events,       \* completion events; a session may have more than one
    PaymentOf,    \* the payment in the metadata of an event's session
    Deliveries,   \* requests to the webhook at one time
    MaxFaults,    \* bound of the errors, crashes, lost answers and changes of plan
    NoLicense

ASSUME StripeAssumption ==
    PaymentOf \in [Events -> Payments] /\ MaxFaults \in Nat /\ NoLicense \notin Events

VARIABLES
    offered,    \* the plan is active
    opened,     \* rows of marketplace_stripe_payments
    licenseOf,  \* their license_id: the event it was issued for
    due,        \* events that Stripe delivers
    recorded,   \* marketplace_stripe_webhook_events
    issued,     \* issued[e]: licenses with stripe_event_id e
    delivery,   \* where the deliveries are
    faults

stripeVars == <<offered, opened, licenseOf, due, recorded, issued, delivery, faults>>

DeliveryStages == {"record", "look", "issue", "complete", "answer"}
NoDelivery == [at |-> "none"]

StripeTypeOK ==
    /\ offered \in BOOLEAN /\ opened \subseteq Payments
    /\ licenseOf \in [Payments -> Events \cup {NoLicense}]
    /\ due \subseteq Events /\ recorded \subseteq Events
    /\ issued \in [Events -> Nat] /\ faults \in 0..MaxFaults
    /\ delivery \in [Deliveries -> [at : DeliveryStages, of : Events] \cup {NoDelivery}]

StripeInit ==
    /\ offered = TRUE /\ opened = {} /\ licenseOf = [p \in Payments |-> NoLicense]
    /\ due = {} /\ recorded = {} /\ issued = [e \in Events |-> 0]
    /\ delivery = [g \in Deliveries |-> NoDelivery] /\ faults = 0

----------------------------------------------------------------------------
\* create_checkout, after Stripe has made the session; the customer gets its
\* address with the answer, so nobody pays a session without its row.
Checkout(p) ==
    /\ offered /\ p \notin opened
    /\ opened' = opened \cup {p}
    /\ UNCHANGED <<offered, licenseOf, due, recorded, issued, delivery, faults>>

\* The customer pays, and Stripe has an event to deliver.
Completes(e) ==
    /\ PaymentOf[e] \in opened /\ e \notin due \cup recorded
    /\ due' = due \cup {e}
    /\ UNCHANGED <<offered, opened, licenseOf, recorded, issued, delivery, faults>>

\* update_plan takes the plan off the market, or puts it back.
UpdatePlan ==
    /\ faults < MaxFaults /\ faults' = faults + 1
    /\ offered' = ~offered
    /\ UNCHANGED <<opened, licenseOf, due, recorded, issued, delivery>>

----------------------------------------------------------------------------
(* The webhook. *)

Works(g, stage) == delivery[g] # NoDelivery /\ delivery[g].at = stage
Proceeds(g, stage) == delivery' = [delivery EXCEPT ![g].at = stage]

\* The delivery is over; a 2xx answer ends Stripe's interest in the event.
AnswersOk(g) ==
    /\ due' = due \ {delivery[g].of}
    /\ delivery' = [delivery EXCEPT ![g] = NoDelivery]
AnswersError(g) == UNCHANGED due /\ delivery' = [delivery EXCEPT ![g] = NoDelivery]

Deliver(g, e) ==
    /\ e \in due /\ delivery[g] = NoDelivery
    /\ delivery' = [delivery EXCEPT ![g] = [at |-> "record", of |-> e]]
    /\ UNCHANGED <<offered, opened, licenseOf, due, recorded, issued, faults>>

\* Mutant: the event is recorded again, and handled again.
RecordEventAgain(g) ==
    /\ Works(g, "record")
    /\ recorded' = recorded \cup {delivery[g].of}
    /\ Proceeds(g, "look")
    /\ UNCHANGED <<offered, opened, licenseOf, due, issued, faults>>

\* webhook: INSERT ... ON CONFLICT DO NOTHING, a statement of its own
RecordEvent(g) ==
    /\ Works(g, "record")
    /\ recorded' = recorded \cup {delivery[g].of}
    /\ \/ delivery[g].of \in recorded /\ AnswersOk(g)
       \/ delivery[g].of \notin recorded /\ Proceeds(g, "look") /\ UNCHANGED due
    /\ UNCHANGED <<offered, opened, licenseOf, issued, faults>>

\* handle_checkout_completed reads the row; its FOR UPDATE is outside a
\* transaction and locks nothing beyond the statement.
LookUpPayment(g) ==
    /\ Works(g, "look")
    /\ \/ licenseOf[PaymentOf[delivery[g].of]] # NoLicense /\ AnswersOk(g)
       \/ licenseOf[PaymentOf[delivery[g].of]] = NoLicense /\ Proceeds(g, "issue") /\ UNCHANGED due
    /\ UNCHANGED <<offered, opened, licenseOf, recorded, issued, faults>>

\* issue_for_owner: 404 when the plan is no longer active
IssueLicense(g) ==
    /\ Works(g, "issue")
    /\ \/ /\ offered
          /\ issued' = [issued EXCEPT ![delivery[g].of] = @ + 1]
          /\ Proceeds(g, "complete") /\ UNCHANGED due
       \/ ~offered /\ AnswersError(g) /\ UNCHANGED issued
    /\ UNCHANGED <<offered, opened, licenseOf, recorded, faults>>

CompletePayment(g) ==
    /\ Works(g, "complete")
    /\ licenseOf' = [licenseOf EXCEPT ![PaymentOf[delivery[g].of]] = delivery[g].of]
    /\ Proceeds(g, "answer")
    /\ UNCHANGED <<offered, opened, due, recorded, issued, faults>>

\* The event gets its payment_id, which nothing reads; then 200.
LinkAndAnswer(g) ==
    /\ Works(g, "answer")
    /\ AnswersOk(g)
    /\ UNCHANGED <<offered, opened, licenseOf, recorded, issued, faults>>

\* A statement fails, the server stops, or the answer does not arrive.
DeliveryFails(g) ==
    /\ delivery[g] # NoDelivery /\ faults < MaxFaults
    /\ faults' = faults + 1
    /\ AnswersError(g)
    /\ UNCHANGED <<offered, opened, licenseOf, recorded, issued>>

StripeNext ==
    \/ \E p \in Payments : Checkout(p)
    \/ \E e \in Events : Completes(e)
    \/ UpdatePlan
    \/ \E g \in Deliveries :
        \/ \E e \in Events : Deliver(g, e)
        \/ RecordEvent(g) \/ LookUpPayment(g) \/ IssueLicense(g)
        \/ CompletePayment(g) \/ LinkAndAnswer(g) \/ DeliveryFails(g)

StripeSpec == StripeInit /\ [][StripeNext]_stripeVars

----------------------------------------------------------------------------
\* However often and however concurrently an event is delivered, it brings one
\* license at most, a payment holds a license of its own session, and unless
\* something failed or the plan changed an event that was recorded leaves its
\* payment with a license (stripe_handlers.rs:12, :209).
LicensedByItsEvent ==
    /\ \A e \in Events : issued[e] <= 1 /\ (issued[e] = 1 => e \in recorded)
    /\ \A e \in Events, p \in Payments :
        licenseOf[p] = e => issued[e] = 1 /\ PaymentOf[e] = p
    /\ faults = 0 =>
        \A e \in recorded :
            \/ licenseOf[PaymentOf[e]] # NoLicense
            \/ \E g \in Deliveries : delivery[g] # NoDelivery /\ delivery[g].of = e
=============================================================================
