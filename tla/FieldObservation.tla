-------------------------- MODULE FieldObservation --------------------------
(***************************************************************************)
(* The field HTTP observation: an adapter of the detector service that     *)
(* starts a counting proxy, sends it one request and, where the permit     *)
(* allows, one more for every redirect within the origin, and keeps the    *)
(* chain as evidence.  The proxy answers for a target that does not, and   *)
(* goes on with the request in flight until its container is removed.      *)
(***************************************************************************)
EXTENDS Naturals, Sequences

CONSTANTS
  Cases   \* [site, url, follow, redirects, requests]: what is observed

Nowhere == "nowhere"
\* A site answers each of its urls with a page, a redirect or not at all;
\* what is not in its domain belongs to another origin.
ASSUME CasesAssumption ==
  \A c \in Cases : /\ c.url \in DOMAIN c.site
                   /\ c.requests \in Nat \ {0} /\ c.redirects \in Nat

VARIABLES
  case,    \* the request of the run
  stage,   \* where the adapter is
  hop,     \* [index, url]: the request it is at
  flight,  \* that request at the proxy: "none", "admitted", "forwarding"
  reply,   \* the response the proxy gave to it
  fieldLedger,  \* proxy-ledger.db: rows by status
  chain,   \* response_chain: the targets that answered
  fieldVerdict, \* the result of the run
  reached  \* history: requests that reached the network

fieldVars == <<case, stage, hop, flight, reply, fieldLedger, chain, fieldVerdict, reached>>

NoLedger == [forwarding |-> 0, responses |-> 0, failed |-> 0, blocked |-> 0]
ForwardedIn(rows) == rows.forwarding + rows.responses + rows.failed
NoReply == [from |-> "none", to |-> Nowhere]
NoVerdict == [status |-> "open", satisfied |-> FALSE, retryable |-> FALSE, rows |-> NoLedger]

FieldInit ==
  /\ case \in Cases
  /\ stage = "inspect"
  /\ hop = [index |-> 0, url |-> case.url]
  /\ flight = "none" /\ reply = NoReply
  /\ fieldLedger = NoLedger /\ chain = <<>>
  /\ fieldVerdict = NoVerdict
  /\ reached = 0

Ends(status, satisfied, retryable) ==
  /\ stage' = "remove"
  /\ fieldVerdict' = [status |-> status, satisfied |-> satisfied, retryable |-> retryable,
                 rows |-> fieldLedger]
-----------------------------------------------------------------------------
\* The image of the proxy, its container, its port.
StartProxy ==
  /\ stage = "inspect"
  /\ \/ stage' = "send" /\ UNCHANGED fieldVerdict
     \/ Ends("blocked", FALSE, FALSE)
  /\ UNCHANGED <<case, hop, flight, reply, fieldLedger, chain, reached>>

\* The proxy admits the request or answers it itself.
SendHop ==
  /\ stage = "send"
  /\ IF ForwardedIn(fieldLedger) < case.requests
     THEN flight' = "admitted" /\ UNCHANGED <<reply, fieldLedger>>
     ELSE /\ reply' = [from |-> "boundary", to |-> Nowhere]
          /\ fieldLedger' = [fieldLedger EXCEPT !.blocked = @ + 1]
          /\ UNCHANGED flight
  /\ stage' = "await"
  /\ UNCHANGED <<case, hop, chain, fieldVerdict, reached>>

ForwardHop ==
  /\ flight = "admitted"
  /\ flight' = "forwarding"
  /\ fieldLedger' = [fieldLedger EXCEPT !.forwarding = @ + 1]
  /\ reached' = reached + 1
  /\ UNCHANGED <<case, stage, hop, reply, chain, fieldVerdict>>

\* A target that does not answer is answered for.
AnswerHop ==
  LET page == case.site[hop.url] IN
  /\ flight = "forwarding"
  /\ flight' = "none"
  /\ fieldLedger' = IF page.kind = "down"
               THEN [fieldLedger EXCEPT !.forwarding = @ - 1, !.failed = @ + 1]
               ELSE [fieldLedger EXCEPT !.forwarding = @ - 1, !.responses = @ + 1]
  /\ reply' = IF stage # "await" THEN reply
              ELSE [from |-> IF page.kind = "down" THEN "boundary" ELSE "target",
                    to |-> IF page.kind = "redirect" THEN page.to ELSE Nowhere]
  /\ UNCHANGED <<case, stage, hop, chain, fieldVerdict, reached>>

\* No connection to the proxy, or a response that is not read in time or cut,
\* wherever the proxy is with the request: it may have reserved it, wait for
\* its rate, or have forwarded it.
TransportFails ==
  /\ stage = "send" \/ (stage = "await" /\ reply = NoReply)
  /\ Ends(IF ForwardedIn(fieldLedger) = 0 THEN "failed" ELSE "unknown",
          FALSE, ForwardedIn(fieldLedger) = 0)
  /\ UNCHANGED <<case, hop, flight, reply, fieldLedger, chain, reached>>

SameOrigin(url) == url \in DOMAIN case.site

Observed_Any(c, r, h) == Append(c, h.url)
\* Only what the target itself said is part of the chain.
Observed(c, r, h) == IF r.from = "target" THEN Append(c, h.url) ELSE c

\* The answer read: the next hop, or the evidence.
ReadHop ==
  /\ stage = "await" /\ reply # NoReply
  /\ chain' = Observed(chain, reply, hop)
  /\ IF /\ reply.to # Nowhere /\ case.follow
        /\ SameOrigin(reply.to) /\ hop.index < case.redirects
     THEN stage' = "send" /\ hop' = [index |-> hop.index + 1, url |-> reply.to]
     ELSE stage' = "persist" /\ UNCHANGED hop
  /\ reply' = NoReply
  /\ UNCHANGED <<case, flight, fieldLedger, fieldVerdict, reached>>

\* The evidence, with the accounting read before it.
PersistEvidence ==
  /\ stage = "persist"
  /\ Ends("completed", TRUE, FALSE)
  /\ UNCHANGED <<case, hop, flight, reply, fieldLedger, chain, reached>>

\* The finally block: the container and what it had in flight are gone.
RemoveProxy ==
  /\ stage = "remove"
  /\ stage' = "closed" /\ flight' = "none"
  /\ UNCHANGED <<case, hop, reply, fieldLedger, chain, fieldVerdict, reached>>

FieldNext ==
  \/ StartProxy \/ SendHop \/ ForwardHop \/ AnswerHop \/ TransportFails
  \/ ReadHop \/ PersistEvidence \/ RemoveProxy

FieldSpec == FieldInit /\ [][FieldNext]_fieldVars
-----------------------------------------------------------------------------
(***************************************************************************)
(* Properties.                                                             *)
(***************************************************************************)
\* A run that may be retried has reached nobody, not even while its proxy
\* was being removed.
FieldRetrySafe == fieldVerdict.retryable => reached = 0

\* The accounting of a run is read before its proxy is removed: it lacks at
\* most the one request that was in flight when the transport failed, and a
\* run that may be retried has nothing else behind it.
VerdictAccounted ==
  fieldVerdict.status # "open" =>
    /\ reached - ForwardedIn(fieldVerdict.rows) \in {0, 1}
    /\ reached # ForwardedIn(fieldVerdict.rows) => fieldVerdict.status \in {"failed", "unknown"}
    /\ fieldVerdict.retryable => reached <= 1 /\ chain = <<>>

\* The chain a completed run keeps as evidence has one hop for each response
\* its ledger counts, within the redirects the permit allows.
ChainAccounted ==
  fieldVerdict.status = "completed" =>
    /\ Len(chain) = fieldVerdict.rows.responses
    /\ reached = ForwardedIn(fieldVerdict.rows)
    /\ Len(chain) <= case.redirects + 1

\* What a run says of itself accounts for every request that reached a
\* target, but for the one whose answer it did not wait for.
FieldAccounted == VerdictAccounted /\ ChainAccounted

\* A requirement is satisfied by what a target said.
SatisfiedMeansObserved == fieldVerdict.satisfied => chain # <<>>
=============================================================================
