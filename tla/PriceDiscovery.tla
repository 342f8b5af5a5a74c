--------------------------- MODULE PriceDiscovery ---------------------------
(***************************************************************************)
(* volume.ListVolumePrices, beside other calls of its Client: a session     *)
(* with a budget of requests and of rows selects the project, reads the     *)
(* catalog, makes rows of it, refuses the quotes that cannot all fit, and   *)
(* asks for one quote per distinct body.  With AllowPartial it goes on      *)
(* after a failure and reports it.                                          *)
(***************************************************************************)
EXTENDS ProjectSelection

CONSTANTS
    Parent,       \* volume type zones
    Body,         \* what a quote is asked for: a type, its zone, size and encryption
    BodiesOf,     \* the bodies of the types of each volume type zone
    Inapplicable, \* bodies no quote is asked for
    MaxRows       \* rows a session may collect

ASSUME DiscoveryAssumption ==
    /\ BodiesOf \in [Parent -> SUBSET Body] /\ IsFiniteSet(Parent)
    /\ \A p \in Parent : IsFiniteSet(BodiesOf[p])
    /\ Inapplicable \subseteq Body /\ MaxRows \in Nat

VARIABLES
    requests, rows, terminal, \* the Session of each call
    reading,  \* volume type zones it has to read
    items,    \* rows it made
    groups,   \* bodies it has no quote for yet
    priced,   \* bodies it has a price for
    errs,     \* whether a failure was recorded
    refused   \* history: calls whose quote found the budget used up

session == <<requests, rows, terminal>>
listing == <<reading, items, groups, priced, errs>>
discoveryVars == <<selectionVars, session, listing, refused>>

\* The reads of the catalog, and what follows each.  The list of zones has one
\* row, the list of encryption types none.
After == [zones |-> "volume_type_zones", volume_type_zones |-> "encryption_types",
          encryption_types |-> "types"]
RowsOf(read) == CASE read = "zones" -> 1 [] read = "encryption_types" -> 0
                  [] OTHER -> Cardinality(Parent)

\* The rows a volume type zone ends up with.
RowsIn(p) == {p} \X BodiesOf[p]
Everything == UNION {RowsIn(p) : p \in Parent}

Answer == {"ok", "failed", "fatal", "limit"}

DiscoveryInit ==
    /\ SelectionInit
    /\ requests = [c \in Call |-> 0] /\ rows = [c \in Call |-> 0]
    /\ terminal = [c \in Call |-> FALSE]
    /\ reading = [c \in Call |-> Parent]
    /\ items = [c \in Call |-> {}]
    /\ groups = [c \in Call |-> {}] /\ priced = [c \in Call |-> {}]
    /\ errs = [c \in Call |-> FALSE]
    /\ refused = {}

-----------------------------------------------------------------------------
\* Preflight: the calls still fit the budget.
Preflight(c, calls) == calls + requests[c] <= plan[c].max

\* AddRows: the rows still fit the budget.
Fits(c, n) == rows[c] + n <= MaxRows
AddRows(c, n) == rows' = [rows EXCEPT ![c] = @ + n]

\* Session.DoJSON, for a request of its own key, and what comes of it: fatal is
\* a 401, a 429 after the retries or an ended context, failed all the rest.
DoJSON(c, answer) ==
    /\ IF terminal[c] THEN answer = "fatal" /\ UNCHANGED requests
       ELSE IF ~Preflight(c, 1) THEN answer = "limit" /\ UNCHANGED requests
       ELSE /\ answer \in {"ok", "failed", "fatal"}
            /\ requests' = [requests EXCEPT ![c] = @ + 1]
    /\ terminal' = [terminal EXCEPT ![c] = @ \/ answer = "fatal"]

\* A read whose rows the validator adds before the answer counts.
Read(c, n, answer) ==
    \E a \in Answer :
        /\ DoJSON(c, a)
        /\ IF a = "ok" /\ Fits(c, n) THEN answer = "ok" /\ AddRows(c, n)
           ELSE answer = (IF a = "ok" THEN "limit" ELSE a) /\ UNCHANGED rows

\* finish: an error alone, or the output with or without a DiscoveryError.
Finish(c, failures) ==
    EndCall(c, IF ~failures THEN "complete" ELSE IF items[c] = {} THEN "error" ELSE "partial",
           projectID)

\* Mutated Record: a failure that does not stop the invocation is not kept.
RecordStops(c, answer) == plan[c].partial /\ errs' = [errs EXCEPT ![c] = @ \/ answer # "failed"]

\* record: only with AllowPartial does an error leave an output.
Record(c, answer) == plan[c].partial /\ errs' = [errs EXCEPT ![c] = TRUE]
Stops(answer) == answer \in {"fatal", "limit"}
GivesUp(c) == ~plan[c].partial /\ EndCall(c, "error", projectID) /\ UNCHANGED errs

-----------------------------------------------------------------------------
\* Mutated RequireDiscoveryProjectID: an early return forgets projectMu.
RequireDiscoveryProjectIDLocked(c) ==
    /\ HoldsMu(c, "prices")
    /\ IF projectID # NoProject
         THEN MoveTo(c, "zones") /\ projectMu' = NoCall /\ UNCHANGED <<client, session>>
       ELSE \E a \in Answer :
              /\ Read(c, Cardinality(projects), a)
              /\ IF a = "ok"
                   THEN projectMu' = NoCall /\ Choose(c, projects)
                   ELSE EndCall(c, "error", NoProject) /\ UNCHANGED <<projectMu, client>>
    /\ UNCHANGED <<plan, projects, list, listing, refused>>

RequireDiscoveryProjectID(c) ==
    /\ HoldsMu(c, "prices")
    /\ \/ EndCall(c, "error", NoProject) /\ UNCHANGED <<client, session>>
       \/ projectID # NoProject /\ MoveTo(c, "zones") /\ UNCHANGED <<client, session>>
       \/ /\ projectID = NoProject
          /\ \E a \in Answer :
               /\ Read(c, Cardinality(projects), a)
               /\ IF a = "ok" THEN Choose(c, projects)
                  ELSE EndCall(c, "error", NoProject) /\ UNCHANGED client
    /\ projectMu' = NoCall
    /\ UNCHANGED <<plan, projects, list, listing, refused>>

Elsewhere == UNCHANGED <<plan, projects, client, projectMu, list>>

\* The three reads every later one needs: a failure ends the call.
ReadCatalog(c) ==
    /\ stage[c] \in DOMAIN After
    /\ \E a \in Answer :
         /\ Read(c, RowsOf(stage[c]), a)
         /\ IF a = "ok" THEN MoveTo(c, After[stage[c]]) ELSE EndCall(c, "error", projectID)
    /\ UNCHANGED <<listing, refused>> /\ Elsewhere

\* One volume type zone: its types, and a row for each of its bodies until the
\* rows are used up.
ReadTypes(c, p) ==
    /\ stage[c] = "types" /\ p \in reading[c]
    /\ reading' = [reading EXCEPT ![c] = @ \ {p}]
    /\ \E a \in Answer :
         /\ DoJSON(c, a)
         /\ LET n == Cardinality(BodiesOf[p])
                read == IF a = "ok" /\ ~Fits(c, n) THEN "limit" ELSE a
                made == {r \in SUBSET RowsIn(p) :
                          \/ r = RowsIn(p) /\ Fits(c, 2 * n)
                          \/ rows[c] + n + Cardinality(r) = MaxRows /\ ~Fits(c, 2 * n)}
            IN IF read # "ok"
                 THEN /\ GivesUp(c) \/ (Record(c, read) /\ IF Stops(read) THEN Finish(c, TRUE)
                                                            ELSE MoveTo(c, "types"))
                      /\ UNCHANGED <<items, rows>>
               ELSE /\ \E r \in made : /\ items' = [items EXCEPT ![c] = @ \cup r]
                                       /\ AddRows(c, n + Cardinality(r))
                    /\ IF Fits(c, 2 * n) THEN MoveTo(c, "types") /\ UNCHANGED errs
                       ELSE GivesUp(c) \/ (Record(c, "limit") /\ MoveTo(c, "finish"))
    /\ UNCHANGED <<groups, priced, refused>> /\ Elsewhere

FinishRows(c) ==
    /\ stage[c] = "finish"
    /\ Finish(c, errs[c])
    /\ UNCHANGED <<session, listing, refused>> /\ Elsewhere

\* The bodies of the rows that need a quote.
Bodies(c) == {r[2] : r \in items[c]} \ Inapplicable

\* Mutated QuotePhase: each quote is left to see for itself.
QuotePhaseUnchecked(c) ==
    /\ stage[c] = "types" /\ reading[c] = {}
    /\ MoveTo(c, "quote") /\ groups' = [groups EXCEPT ![c] = Bodies(c)]
    /\ UNCHANGED <<session, reading, items, priced, errs, refused>> /\ Elsewhere

\* All quotes fit, or none is asked for.
QuotePhase(c) ==
    /\ stage[c] = "types" /\ reading[c] = {}
    /\ IF Preflight(c, Cardinality(Bodies(c)))
         THEN /\ MoveTo(c, "quote") /\ groups' = [groups EXCEPT ![c] = Bodies(c)]
              /\ UNCHANGED errs
         ELSE /\ GivesUp(c) \/ (Record(c, "limit") /\ Finish(c, TRUE))
              /\ UNCHANGED groups
    /\ UNCHANGED <<session, reading, items, priced, refused>> /\ Elsewhere

Quote(c, b) ==
    /\ stage[c] = "quote" /\ b \in groups[c]
    /\ groups' = [groups EXCEPT ![c] = @ \ {b}]
    /\ \E a \in Answer :
         /\ DoJSON(c, a)
         /\ refused' = IF a = "limit" THEN refused \cup {c} ELSE refused
         /\ IF a = "ok"
              THEN /\ priced' = [priced EXCEPT ![c] = @ \cup {b}]
                   /\ MoveTo(c, "quote") /\ UNCHANGED errs
            ELSE /\ UNCHANGED priced
                 /\ GivesUp(c) \/ (Record(c, a) /\ IF Stops(a) THEN Finish(c, TRUE)
                                                    ELSE MoveTo(c, "quote"))
    /\ UNCHANGED <<rows, reading, items>> /\ Elsewhere

LastQuote(c) ==
    /\ stage[c] = "quote" /\ groups[c] = {}
    /\ Finish(c, errs[c])
    /\ UNCHANGED <<session, listing, refused>> /\ Elsewhere

Step(c) ==
    \/ /\ ListProjects(c) \/ Lock(c) \/ RequireProjectID(c) \/ RequireProject(c)
       /\ UNCHANGED <<session, listing, refused>>
    \/ RequireDiscoveryProjectID(c) \/ ReadCatalog(c)
    \/ \E p \in Parent : ReadTypes(c, p)
    \/ FinishRows(c) \/ QuotePhase(c)
    \/ \E b \in Body : Quote(c, b)
    \/ LastQuote(c)

\* Every call has returned.
Finished == (\A c \in Call : stage[c] = "done") /\ UNCHANGED discoveryVars

DiscoveryNext ==
    \/ \E c \in Call : Step(c)
    \/ Change /\ UNCHANGED <<session, listing, refused>>
    \/ Finished

\* The HTTP client has a timeout and projectMu goes to a waiting call.
DiscoverySpec == DiscoveryInit /\ [][DiscoveryNext]_discoveryVars /\ \A c \in Call : WF_discoveryVars(Step(c))

-----------------------------------------------------------------------------
(* Properties. *)

\* No request of a session exceeds its budget, and once the quotes have begun
\* none is refused for it: the phase is refused as a whole or runs to its end.
QuotesAllOrNone ==
    /\ refused = {}
    /\ \A c \in DOMAIN plan : requests[c] <= plan[c].max

\* A listing without an error has every row of the catalog, each with a price
\* unless it is inapplicable: no failed read, quote or limit is passed over.
CompleteMeansPriced ==
    \A c \in Call : result[c] = "complete" =>
        /\ items[c] = Everything
        /\ \A r \in items[c] : r[2] \in priced[c] \cup Inapplicable

\* Every call returns, also one that waits for projectMu behind the requests of
\* another: no return keeps it.
CallsReturn == \A c \in Call : <>(stage[c] = "done")
=============================================================================
