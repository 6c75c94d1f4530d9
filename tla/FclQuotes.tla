------------------------------- MODULE FclQuotes -------------------------------
(***************************************************************************)
(* A full container load from the inquiry to the order: the case           *)
(* (access-gateway/portal/cases.ts), the published rates                   *)
(* (portal/native-admin.ts), the quote and its documents                   *)
(* (quote-documents/workflow.ts), the offer the customer confirms          *)
(* (portal/fcl-customer.ts) and the order that is started on it            *)
(* (portal/fcl-execution.ts).                                              *)
(*                                                                         *)
(* Every write takes the locks of the case and of the rates and runs in    *)
(* one transaction; only a PDF is rendered between two of them, while      *)
(* anything else may happen.  The process may stop after any transaction.  *)
(* What is abstracted:                                                     *)
(*   - one case, whose receiver is the staff, and one quote for it;        *)
(*   - a customer's supplement, a release of rates and a template are the  *)
(*     number they have; closed and cancelled are the same;                *)
(*   - a request that expects another version than the stored one, or that *)
(*     repeats a key, changes nothing and is left out;                     *)
(*   - amounts, scopes and dates but the last one of a document; quotes    *)
(*     that are incomplete, of which no document is made, and estimates.   *)
(***************************************************************************)
EXTENDS Integers, FiniteSets, Sequences

CONSTANTS
    Documents,                  \* documents made of the quote
    Exports,                    \* requests for a PDF
    ReviewTtl,                  \* how long a review stands
    MaxCase, MaxRelease, MaxQuote, MaxTemplate, MaxDocument, MaxOffer,  \* bounds on versions
    LastDay,                    \* bound on the clock
    MaxRestarts,
    NoDocument

ASSUME QuoteAssumption ==
    /\ ReviewTtl \in Nat \ {0} /\ LastDay \in Nat
    /\ {MaxCase, MaxRelease, MaxQuote, MaxTemplate, MaxDocument, MaxOffer} \subseteq Nat \ {0}
    /\ IsFiniteSet(Documents) /\ NoDocument \notin Documents \cup Exports

VARIABLES
    inquiry,                    \* the case: business_cases and its last events
    release, lastRelease,       \* the active release of rates, 0 for none; the last one made
    template,                   \* document_configs: the version of the template
    quote,                      \* fcl_quote_revisions
    documents,                  \* document_revisions
    reviews,                    \* the reviews this process remembers
    pdfs,                       \* document_pdfs with their bindings
    exports,                    \* what each export is doing
    handoffs,                   \* the handoffs recorded, as events of the case
    customer,                   \* has the customer claimed the case, and confirmed which offer
    offers, orders,             \* the offers published, the acceptances of the execution
    accepted,                   \* the offer the acceptance event names, 0 for none
    restarts,
    today                       \* the clock

quoteVars == <<inquiry, release, lastRelease, template, quote, documents, reviews, pdfs, exports,
               handoffs, customer, offers, orders, accepted, restarts>>

Days     == 0..LastDay
OpenCase == {"submitted", "in_review", "needs_input"}
Decision == {"draft", "approved", "rejected"}
Revision  == [document : Documents, version : 1..MaxDocument]
NoExport == [at |-> "idle", document |-> NoDocument, version |-> 0, bytes |-> NoDocument]

QuoteInit ==
    /\ inquiry = [status |-> "submitted", version |-> 1, supplement |-> 0, confirmed |-> 0, reviewed |-> 0]
    /\ release = 0 /\ lastRelease = 0 /\ template = 0
    /\ quote = <<>>
    /\ documents = [d \in Documents |-> <<>>]
    /\ reviews = {} /\ pdfs = {}
    /\ exports = [e \in Exports |-> NoExport]
    /\ handoffs = <<>> /\ offers = <<>> /\ orders = <<>>
    /\ customer = [claimed |-> FALSE, confirmed |-> 0]
    /\ accepted = 0 /\ restarts = 0 /\ today = 0

-----------------------------------------------------------------------------
(* The case.                                                               *)

CaseIsOpen == inquiry.status \in OpenCase

\* Every change of the case makes a new version of it.
Changed(status) == [inquiry EXCEPT !.status = status, !.version = @ + 1]
ChangeCase(to) ==
    /\ CaseIsOpen /\ inquiry.version < MaxCase
    /\ inquiry' = to
    /\ UNCHANGED <<release, lastRelease, template, quote, documents, reviews, pdfs, exports, handoffs,
                   customer, offers, orders, accepted, restarts, today>>

UpdateFclCaseStatus == \E status \in {"in_review", "needs_input", "closed"} : ChangeCase(Changed(status))

SupplementFclCase ==
    /\ inquiry.status = "needs_input"
    /\ ChangeCase([Changed("in_review") EXCEPT !.supplement = inquiry.version + 1])

SupplementFclCaseAsStaff == ChangeCase(Changed("in_review"))

\* The staff has read the last supplement and says what counts.
ConfirmFclCase ==
    ChangeCase([Changed("in_review") EXCEPT !.confirmed = inquiry.version + 1,
                                            !.reviewed = inquiry.supplement])

ReviewRequired == inquiry.confirmed # inquiry.version \/ inquiry.reviewed # inquiry.supplement

-----------------------------------------------------------------------------
(* Rates and templates.                                                    *)

ChangeRates ==
    UNCHANGED <<inquiry, template, quote, documents, reviews, pdfs, exports, handoffs, customer, offers,
                orders, accepted, restarts, today>>

\* publish, rollback and bulkPublish: a new release, also for old contents.
PublishRates ==
    /\ lastRelease < MaxRelease
    /\ release' = lastRelease + 1 /\ lastRelease' = lastRelease + 1
    /\ ChangeRates

DisableRates ==
    /\ release # 0 /\ release' = 0 /\ UNCHANGED lastRelease
    /\ ChangeRates

SaveFclConfig ==
    /\ template < MaxTemplate /\ template' = template + 1
    /\ UNCHANGED <<inquiry, release, lastRelease, quote, documents, reviews, pdfs, exports, handoffs,
                   customer, offers, orders, accepted, restarts, today>>

-----------------------------------------------------------------------------
(* The quote.                                                              *)

CaseBinding == [case |-> inquiry.version, supplement |-> inquiry.supplement, release |-> release]

\* What a rate can be matched for: a case that was looked at.
Matches == /\ CaseIsOpen /\ inquiry.status = "in_review" /\ ~ReviewRequired
           /\ release # 0

\* A quote is made for the case as it is, and a revision of it either keeps
\* what the one before was made for or is made anew.
SaveFclQuote ==
    /\ Len(quote) < MaxQuote /\ CaseIsOpen
    /\ \/ Matches /\ quote' = Append(quote, CaseBinding)
       \/ quote # <<>> /\ quote' = Append(quote, quote[Len(quote)])
    /\ UNCHANGED <<inquiry, release, lastRelease, template, documents, reviews, pdfs, exports, handoffs,
                   customer, offers, orders, accepted, restarts, today>>

\* fclQuoteCurrentness of the revision q.
QuoteCurrent(q) ==
    /\ q # 0 /\ q = Len(quote)
    /\ quote[q] = CaseBinding /\ release # 0
    /\ inquiry.status = "in_review" /\ ~ReviewRequired

-----------------------------------------------------------------------------
(* Documents.                                                              *)

Latest(d)     == documents[d][Len(documents[d])]
Exists(d)     == documents[d] # <<>>
InState(d, s) == Exists(d) /\ Latest(d).state = s

\* fclDocumentCurrentness of the latest revision of d.
DocumentCurrent(d) ==
    /\ QuoteCurrent(Latest(d).quote)
    /\ Latest(d).template = template
    /\ today <= Latest(d).until

\* A new revision; the reviews of the one before are of no use.
Revise(d, revision) ==
    /\ Len(documents[d]) < MaxDocument
    /\ documents' = [documents EXCEPT ![d] = Append(@, revision)]
    /\ reviews' = {r \in reviews : r.document # d}
    /\ UNCHANGED <<inquiry, release, lastRelease, template, quote, pdfs, exports, handoffs,
                   customer, offers, orders, accepted, restarts, today>>

\* create, refresh, resubmit and re_quote: an approved document is revised
\* only for another quote or another template.
SaveFclDocument(d) ==
    /\ QuoteCurrent(Len(quote)) /\ template # 0
    /\ InState(d, "approved") => Latest(d).quote # Len(quote) \/ Latest(d).template # template
    /\ \E until \in today..LastDay :
          Revise(d, [state |-> "draft", quote |-> Len(quote), template |-> template, until |-> until])

ReviewFclDocument(d) ==
    /\ InState(d, "draft") /\ DocumentCurrent(d)
    /\ reviews' = reviews \cup {[document |-> d, version |-> Len(documents[d]), ends |-> today + ReviewTtl,
                                 on |-> CaseBinding, template |-> template]}
    /\ UNCHANGED <<inquiry, release, lastRelease, template, quote, documents, pdfs, exports, handoffs,
                   customer, offers, orders, accepted, restarts, today>>

Reviewed(d) == {r \in reviews : r.document = d /\ r.version = Len(documents[d]) /\ r.ends > today}

\* Mutant: whether the quote is current is asked at the review only.
ApproveWhatWasReviewed(d) ==
    /\ InState(d, "draft") /\ Reviewed(d) # {}
    /\ Revise(d, [Latest(d) EXCEPT !.state = "approved"])

ApproveFclDocument(d) ==
    /\ InState(d, "draft") /\ Reviewed(d) # {} /\ DocumentCurrent(d)
    /\ Revise(d, [Latest(d) EXCEPT !.state = "approved"])

\* A rejection asks for nothing to be current.
RejectFclDocument(d) ==
    /\ InState(d, "draft")
    /\ Revise(d, [Latest(d) EXCEPT !.state = "rejected"])

-----------------------------------------------------------------------------
(* The PDF.                                                                *)

Pdf(d)     == {p \in pdfs : p.document = d /\ p.version = Len(documents[d])}
\* prepareFormalFclPdf: an approved document that is current in everything.
Formal(d)  == InState(d, "approved") /\ DocumentCurrent(d)
AnswerExport(e, pdf) == exports' = [exports EXCEPT ![e] =
                      [at |-> "answered", document |-> pdf.document, version |-> pdf.version, bytes |-> pdf.bytes]]

\* exportFclDocument up to the renderer, or to the end when there is a PDF.
StartExport(e, d) ==
    /\ exports[e].at = "idle" /\ Formal(d)
    /\ \/ \E pdf \in Pdf(d) : AnswerExport(e, pdf)
       \/ /\ Pdf(d) = {}
          /\ exports' = [exports EXCEPT ![e] = [at |-> "rendering", document |-> d,
                                                version |-> Len(documents[d]), bytes |-> e]]
    /\ UNCHANGED <<inquiry, release, lastRelease, template, quote, documents, reviews, pdfs, handoffs,
                   customer, offers, orders, accepted, restarts, today>>

\* Mutant: the document is formal again, in another version.
FormalAgain(e) == Formal(exports[e].document)

\* writeFclPdf: the document must still be the one that was rendered; a PDF
\* that was stored in the meantime is the answer.
StillFormal(e) ==
    LET d == exports[e].document IN Formal(d) /\ exports[e].version = Len(documents[d])

FinishExport(e) ==
    LET d   == exports[e].document
        pdf == [document |-> d, version |-> Len(documents[d]), bytes |-> exports[e].bytes,
                shows |-> exports[e].version]
    IN  /\ exports[e].at = "rendering"
        /\ \/ /\ StillFormal(e) /\ Pdf(d) = {}
              /\ pdfs' = pdfs \cup {pdf} /\ AnswerExport(e, pdf)
           \/ /\ StillFormal(e)
              /\ \E stored \in Pdf(d) : AnswerExport(e, stored)
              /\ UNCHANGED pdfs
           \/ exports' = [exports EXCEPT ![e] = NoExport] /\ UNCHANGED pdfs
        /\ UNCHANGED <<inquiry, release, lastRelease, template, quote, documents, reviews, handoffs,
                       customer, offers, orders, accepted, restarts, today>>

-----------------------------------------------------------------------------
(* Handoff, offer and order.                                               *)

Bound(d)      == [document |-> d, version |-> Len(documents[d])]
Recorded(b)   == \E i \in DOMAIN handoffs : handoffs[i] = b
\* Mutant: an approved document with a PDF is good for ever.
DeliverableOnce(d) == InState(d, "approved") /\ Pdf(d) # {}

\* buildFclHandoffPayload: a formal document with its PDF.
Deliverable(d) == Formal(d) /\ Pdf(d) # {}

SaveFclHandoff(d) ==
    /\ Deliverable(d) /\ ~Recorded(Bound(d))
    /\ handoffs' = Append(handoffs, Bound(d))
    /\ UNCHANGED <<inquiry, release, lastRelease, template, quote, documents, reviews, pdfs, exports,
                   customer, offers, orders, accepted, restarts, today>>

ClaimInquiry ==
    /\ ~customer.claimed /\ customer' = [customer EXCEPT !.claimed = TRUE]
    /\ UNCHANGED <<inquiry, release, lastRelease, template, quote, documents, reviews, pdfs, exports,
                   handoffs, offers, orders, accepted, restarts, today>>

LastOffer == offers[Len(offers)]
\* Mutant: an offer may follow the order.
PublishableEver(d) == customer.claimed /\ Deliverable(d)

Publishable(d) == customer.claimed /\ orders = <<>> /\ Deliverable(d)

PublishOffer(d) ==
    LET offer == [document |-> d, version |-> Len(documents[d]), case |-> inquiry.version] IN
    /\ Len(offers) < MaxOffer /\ Publishable(d)
    /\ offers # <<>> => <<LastOffer.document, LastOffer.version>> # <<d, Len(documents[d])>>
    /\ offers' = Append(offers, offer)
    /\ UNCHANGED <<inquiry, release, lastRelease, template, quote, documents, reviews, pdfs, exports,
                   handoffs, customer, orders, accepted, restarts, today>>

\* current and isFclOfferCurrent: the case and the document are those of the
\* offer and its time is not over; the rates are not asked.
OfferStands ==
    /\ offers # <<>> /\ CaseIsOpen
    /\ inquiry.version = LastOffer.case
    /\ LET d == LastOffer.document IN
          /\ Len(documents[d]) = LastOffer.version
          /\ Latest(d).state = "approved" /\ Latest(d).quote = Len(quote) /\ today <= Latest(d).until

ConfirmOffer ==
    /\ customer.claimed /\ OfferStands /\ customer.confirmed # Len(offers)
    /\ customer' = [customer EXCEPT !.confirmed = Len(offers)]
    /\ UNCHANGED <<inquiry, release, lastRelease, template, quote, documents, reviews, pdfs, exports,
                   handoffs, offers, orders, accepted, restarts, today>>

\* An acceptance with its handoff, which is recorded unless it was.
Order(d) ==
    /\ orders' = Append(orders, Bound(d))
    /\ handoffs' = IF Recorded(Bound(d)) THEN handoffs ELSE Append(handoffs, Bound(d))

KeepRest == UNCHANGED <<inquiry, release, lastRelease, template, quote, documents, pdfs, customer, offers, today>>

\* startFclExecution, by the staff for a customer who confirmed elsewhere.
StartFclExecution(d) ==
    /\ orders = <<>> /\ Deliverable(d) /\ Order(d)
    /\ KeepRest /\ UNCHANGED <<reviews, exports, accepted, restarts>>

AmendFclExecution(d) ==
    /\ orders # <<>> /\ Deliverable(d)
    /\ \A i \in DOMAIN orders : orders[i] # Bound(d)
    /\ Order(d)
    /\ KeepRest /\ UNCHANGED <<reviews, exports, accepted, restarts>>

\* What a stop takes with it: reviews and exports under way.
Lost ==
    /\ restarts < MaxRestarts /\ restarts' = restarts + 1
    /\ reviews' = {}
    /\ exports' = [e \in Exports |-> IF exports[e].at = "rendering" THEN NoExport ELSE exports[e]]

\* accept: the order is started on the document of the confirmed offer, or was
\* started on it; then the acceptance is told.  The process may stop between.
OfferConfirmed == offers # <<>> /\ customer.confirmed = Len(offers)

AcceptOffer ==
    LET d == LastOffer.document IN
    /\ OfferConfirmed
    /\ \/ /\ orders = <<>> /\ Deliverable(d) /\ Len(documents[d]) = LastOffer.version
          /\ Order(d)
       \/ /\ orders # <<>> /\ orders[1] = [document |-> d, version |-> LastOffer.version]
          /\ UNCHANGED <<orders, handoffs>>
    /\ \/ /\ accepted = 0 /\ accepted' = Len(offers)
          /\ UNCHANGED <<reviews, exports, restarts>>
       \/ /\ orders = <<>> /\ Lost /\ UNCHANGED accepted
    /\ KeepRest

Restart ==
    /\ Lost
    /\ KeepRest /\ UNCHANGED <<handoffs, orders, accepted>>

QuoteTick == today < LastDay /\ today' = today + 1 /\ UNCHANGED quoteVars

QuoteNext ==
    \/ UpdateFclCaseStatus \/ SupplementFclCase \/ SupplementFclCaseAsStaff \/ ConfirmFclCase
    \/ PublishRates \/ DisableRates \/ SaveFclConfig
    \/ SaveFclQuote
    \/ \E d \in Documents :
          \/ SaveFclDocument(d) \/ ReviewFclDocument(d) \/ ApproveFclDocument(d) \/ RejectFclDocument(d)
          \/ SaveFclHandoff(d) \/ PublishOffer(d) \/ StartFclExecution(d) \/ AmendFclExecution(d)
          \/ \E e \in Exports : StartExport(e, d)
    \/ \E e \in Exports : FinishExport(e)
    \/ ClaimInquiry \/ ConfirmOffer \/ AcceptOffer \/ Restart \/ QuoteTick

QuoteSpec == QuoteInit /\ [][QuoteNext]_<<quoteVars, today>>

-----------------------------------------------------------------------------
(* Properties.                                                             *)

QuoteTypeOK ==
    /\ inquiry \in [status : OpenCase \cup {"closed"}, version : 1..MaxCase, supplement : 0..MaxCase,
                    confirmed : 0..MaxCase, reviewed : 0..MaxCase]
    /\ {release, lastRelease} \subseteq 0..MaxRelease /\ template \in 0..MaxTemplate
    /\ quote \in Seq([case : 1..MaxCase, supplement : 0..MaxCase, release : 1..MaxRelease])
    /\ documents \in [Documents -> Seq([state : Decision, quote : 1..MaxQuote, template : 1..MaxTemplate,
                                        until : Days])]
    /\ handoffs \in Seq(Revision) /\ orders \in Seq(Revision)
    /\ {accepted, customer.confirmed} \subseteq 0..MaxOffer

\* What the staff approves is what was reviewed: the case, the rates and the
\* template have not changed between the review and the approval.
ApprovedAsReviewed ==
    [][\A d \in Documents : documents'[d] # documents[d] /\ documents'[d][Len(documents'[d])].state = "approved" =>
           \E r \in reviews : /\ r.document = d /\ r.version = Len(documents[d])
                              /\ r.on = CaseBinding' /\ r.template = template']_<<quoteVars, today>>

\* A revision has one PDF, the one every export of it is answered with, and it
\* shows that revision, whatever was stored while it was rendered.
OnePdfPerRevision ==
    /\ \A p, q \in pdfs : p.document = q.document /\ p.version = q.version => p = q
    /\ \A p \in pdfs : p.shows = p.version /\ documents[p.document][p.version].state = "approved"
    /\ \A e \in Exports : exports[e].at = "answered" =>
          \E p \in pdfs : /\ p.document = exports[e].document /\ p.version = exports[e].version
                          /\ p.bytes = exports[e].bytes

\* What the acceptance of an offer names is the last offer, which the customer
\* has confirmed, and the order was first made of its document.
AcceptedIsConfirmed ==
    accepted # 0 =>
        /\ accepted = Len(offers) /\ customer.confirmed = accepted
        /\ orders # <<>> /\ orders[1] = [document |-> LastOffer.document, version |-> LastOffer.version]

\* An order, and every amendment of it, is made of rates, a case and a document
\* that are current at that moment, and is handed off with a PDF.
OrdersAreCurrent ==
    [][orders' # orders =>
          LET order == orders'[Len(orders')] IN
          /\ Formal(order.document) /\ order.version = Len(documents[order.document])
          /\ \E i \in DOMAIN handoffs' : handoffs'[i] = order
          /\ Pdf(order.document) # {}]_<<quoteVars, today>>
==============================================================================
