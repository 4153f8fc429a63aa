---------------------------- MODULE ServerProofs ----------------------------
(***************************************************************************)
(* Proofs about the requests to the server: what a call of a handler has   *)
(* run (HandlerCall), which requests reach a handler, which headers a      *)
(* sender prepares, and that the bindings of A2A agree (Endpoints).        *)
(***************************************************************************)
EXTENDS Endpoints, FiniteSetTheorems, WellFoundedInduction, TLAPS

Hooked == IF handler.afterHook THEN 1 ELSE 0
Observed == IF handler.observed THEN 1 ELSE 0

\* The places before the pipeline, those within its body, and those behind the guards.
Outside == {"idle", "new", "before_tool"}
Inside == {"container", "guards", "before_request", "dependencies", "body", "rendering",
           "observing", "after_response"}
BeforeBody == {"container", "guards", "before_request", "dependencies", "body"}
Guarded == {"before_request", "dependencies", "body", "rendering"}

\* The inductive invariant.
ByPlace ==
  /\ CallTypeOK
  /\ call.at \in Outside => ran = NothingRan /\ call.outcome = "none"
  /\ call.at \in Inside =>
       ran.entered /\ ran.after = 0 /\ ran.afterTool = 0 /\ ~ran.late /\ ran.open = ran.opened
  /\ call.at \in BeforeBody => ran.body = 0 /\ "stray" \notin ran.open
  /\ ran.body > 0 => "stray" \notin ran.open
  /\ call.at \in Guarded => ran.guarded
  /\ call.at \in {"unwinding", "after_tool"} =>
       ran.entered /\ ran.after = Hooked /\ ran.afterTool = 0 /\ ~ran.late
  /\ call.at = "after_tool" => ran.open \subseteq {"stray"}
  /\ call.at = "over" /\ ~ran.entered => ran = NothingRan
  /\ call.at = "over" /\ ran.entered =>
       /\ ran.after = Hooked /\ ~ran.late /\ ran.open \subseteq {"stray"}
       /\ call.outcome # "cancelled" => ran.afterTool = Observed
  /\ GuardsFirst

-----------------------------------------------------------------------------
(* What the steps are made of *)

Outcomes == {"none", "content", "error", "raised", "jsonrpc", "cancelled"}

LEMMA Going ==
  ASSUME CallTypeOK, NEW p \in Places, Goes(p)
  PROVE  call' \in Calls /\ call'.at = p /\ call'.outcome = call.outcome
BY DEF CallTypeOK, Calls, Goes

LEMMA Ending ==
  ASSUME NEW p \in Places, NEW o \in Outcomes, Ends(p, o)
  PROVE  call' \in Calls /\ call'.at = p /\ call'.outcome = o
BY DEF Calls, Ends, Outcomes

LEMMA Nothing ==
  /\ NothingRan.body = 0 /\ NothingRan.after = 0 /\ NothingRan.afterTool = 0
  /\ NothingRan.entered = FALSE /\ NothingRan.guarded = FALSE /\ NothingRan.late = FALSE
  /\ NothingRan.open = {} /\ NothingRan.opened = {}
BY DEF NothingRan

\* The fields of ran that a step leaves alone.
Same(fields) == \A f \in fields : ran'[f] = ran[f]
Fields == {"body", "after", "afterTool", "entered", "guarded", "open", "opened", "late"}

LEMMA Setting ==
  ASSUME ran \in Runs
  PROVE  /\ ran' = [ran EXCEPT !.entered = TRUE] =>
              ran' \in Runs /\ ran'.entered /\ Same(Fields \ {"entered"})
         /\ ran' = [ran EXCEPT !.guarded = TRUE] =>
              ran' \in Runs /\ ran'.guarded /\ Same(Fields \ {"guarded"})
         /\ \A gone \in SUBSET Resources : ran' = [ran EXCEPT !.open = @ \ gone] =>
              ran' \in Runs /\ ran'.open = ran.open \ gone /\ Same(Fields \ {"open"})
<1> USE DEF Same, Fields
<1>1. ran' = [ran EXCEPT !.entered = TRUE] =>
        ran' \in Runs /\ ran'.entered /\ Same(Fields \ {"entered"})
  BY DEF Runs
<1>2. ran' = [ran EXCEPT !.guarded = TRUE] =>
        ran' \in Runs /\ ran'.guarded /\ Same(Fields \ {"guarded"})
  BY DEF Runs
<1>3. ASSUME NEW gone \in SUBSET Resources, ran' = [ran EXCEPT !.open = @ \ gone]
      PROVE  ran' \in Runs /\ ran'.open = ran.open \ gone /\ Same(Fields \ {"open"})
  BY <1>3 DEF Runs
<1> QED
  BY <1>1, <1>2, <1>3

LEMMA Counting ==
  ASSUME ran \in Runs
  PROVE  /\ ran.body = 0 /\ ran' = [ran EXCEPT !.body = @ + 1] =>
              ran' \in Runs /\ ran'.body = 1 /\ Same(Fields \ {"body"})
         /\ \A n \in {0, 1} :
              ran.afterTool = 0 /\ ran' = [ran EXCEPT !.afterTool = @ + n] =>
                ran' \in Runs /\ ran'.afterTool = n /\ Same(Fields \ {"afterTool"})
<1> USE DEF Same, Fields
<1>1. ran.body = 0 /\ ran' = [ran EXCEPT !.body = @ + 1] =>
        ran' \in Runs /\ ran'.body = 1 /\ Same(Fields \ {"body"})
  BY DEF Runs
<1>2. ASSUME NEW n \in {0, 1}, ran.afterTool = 0, ran' = [ran EXCEPT !.afterTool = @ + n]
      PROVE  ran' \in Runs /\ ran'.afterTool = n /\ Same(Fields \ {"afterTool"})
  BY <1>2 DEF Runs
<1> QED
  BY <1>1, <1>2

LEMMA Opening ==
  ASSUME ran \in Runs, NEW r \in Resources, Opens(r), ran.open = ran.opened
  PROVE  ran' \in Runs /\ ran'.open = ran'.opened /\ ran'.open = ran.open \union {r} /\ Same(Fields \ {"open", "opened"})
BY DEF Opens, Runs, Same, Fields

LEMMA Calling ==
  ASSUME ran \in Runs, CallsAfterResponse, ran.open = ran.opened, ran.after = 0, ~ran.late
  PROVE  ran' \in Runs /\ ran'.after = Hooked /\ ~ran'.late /\ Same(Fields \ {"after", "late"})
<1> DEFINE l == ran.late \/ ran.open # ran.opened
<1>1. ran' = [ran EXCEPT !.after = Hooked, !.late = l]
  BY DEF CallsAfterResponse, Runs, Hooked
<1>2. l = FALSE
  BY DEF Runs
<1> HIDE DEF l
<1>3. Hooked \in 0..1
  BY DEF Hooked
<1>4. ran' \in Runs /\ Same(Fields \ {"after", "late"})
  BY <1>1, <1>2, <1>3 DEF Runs, Same, Fields
<1>5. ran'.after = Hooked /\ ran'.late = l
  BY <1>1 DEF Runs
<1> QED
  BY <1>2, <1>4, <1>5

-----------------------------------------------------------------------------
LEMMA InitByPlace == CallInit => ByPlace
BY DEF CallInit, ByPlace, CallTypeOK, Calls, Runs, Idle, NothingRan, NoHandler, Handlers, Places, Outside, Inside,
       BeforeBody, Guarded, GuardsFirst

LEMMA Waiting ==
  ASSUME ByPlace, handler' = handler, call' \in Calls, call'.at = "after_response", call.at = "dependencies",
         ran' \in Runs, ran'.open = ran'.opened, Same(Fields \ {"open", "opened"})
  PROVE  ByPlace'
<1>1. /\ ran'.body = 0 /\ ran'.guarded /\ ran'.entered /\ ran'.after = 0 /\ ran'.afterTool = 0 /\ ran'.late = FALSE
  BY DEF ByPlace, CallTypeOK, Same, Fields, Inside, BeforeBody, Guarded, Runs
<1>2. handler' \in Handlers
  BY DEF ByPlace, CallTypeOK
<1> QED
  BY <1>1, <1>2 DEF ByPlace, CallTypeOK, Outside, BeforeBody, Guarded, GuardsFirst

LEMMA StepByPlace == ByPlace /\ [CallNext]_callVars => ByPlace'
<1> SUFFICES ASSUME ByPlace, [CallNext]_callVars PROVE ByPlace'
  OBVIOUS
<1> USE DEF ByPlace, CallTypeOK, Places, Outside, Inside, BeforeBody, Guarded, GuardsFirst, Hooked, Observed,
            Outcomes, Raises, Same, Fields
<1>1. ASSUME NEW isTool \in BOOLEAN, CallBegins(isTool) PROVE ByPlace'
  BY <1>1 DEF CallBegins, Calls, Idle
<1>2. CASE BuildScope
  BY <1>2, Going, Ending, Nothing DEF BuildScope
<1>3. CASE BeforeToolCall
  <2>1. /\ ran = NothingRan /\ UNCHANGED handler /\ call.outcome = "none"
        /\ ran' \in Runs /\ ran'.entered /\ Same(Fields \ {"entered"})
    BY <1>3, Setting DEF BeforeToolCall
  <2>2. ran'.body = 0 /\ ran'.after = 0 /\ ran'.afterTool = 0 /\ ran'.late = FALSE /\ ran'.open = ran'.opened
        /\ ran'.open = {}
    BY <2>1, Nothing
  <2>3. call' \in Calls /\ call'.at \in {"container", "guards"} /\ call'.outcome = "none"
    BY <1>3, <2>1, Going DEF BeforeToolCall
  <2> QED
    BY <2>1, <2>2, <2>3
<1>4. CASE EnterContainer
  BY <1>4, Going, Ending, Opening DEF EnterContainer, Resources
<1>5. CASE EnforceGuards
  <2>1. ran \in Runs /\ UNCHANGED handler
    BY <1>5 DEF EnforceGuards
  <2>2. CASE Raises("raised") /\ UNCHANGED ran
    BY <1>5, <2>1, <2>2, Ending DEF EnforceGuards
  <2>3. ASSUME NEW p \in {"before_request", "dependencies"}, Goes(p), ran' = [ran EXCEPT !.guarded = TRUE]
        PROVE  ByPlace'
    <3>1. call' \in Calls /\ call'.at = p /\ call'.outcome = call.outcome
      BY <2>3, Going
    <3>2. ran' \in Runs /\ ran'.guarded /\ Same(Fields \ {"guarded"})
      BY <2>1, <2>3, Setting
    <3> QED
      BY <1>5, <2>1, <2>3, <3>1, <3>2 DEF EnforceGuards
  <2> QED
    BY <1>5, <2>2, <2>3 DEF EnforceGuards
<1>6. CASE BeforeRequest
  BY <1>6, Going, Ending DEF BeforeRequest
<1>7. CASE ResolveDependencies
  <2>1. ran \in Runs /\ call.at = "dependencies" /\ UNCHANGED handler
    BY <1>7 DEF ResolveDependencies
  <2>2. CASE Goes("body") /\ Opens("dependencies")
    BY <2>1, <2>2, Going, Opening DEF Resources
  <2>3. CASE Raises("raised") /\ UNCHANGED ran
    BY <2>1, <2>3, Ending
  <2>4. CASE Raises("raised") /\ Opens("stray")
    <3>1. call' \in Calls /\ call'.at = "observing"
      BY <2>4, Ending
    <3>2. ran' \in Runs /\ ran'.open = ran'.opened /\ Same(Fields \ {"open", "opened"})
      BY <2>1, <2>4, Opening DEF Resources
    <3> QED
      BY <2>1, <3>1, <3>2
  <2> QED
    BY <1>7, <2>2, <2>3, <2>4 DEF ResolveDependencies, OpensSome
<1>8. CASE RunBody
  <2>1. ran \in Runs /\ ran.body = 0 /\ UNCHANGED handler
    BY <1>8 DEF RunBody
  <2>2. CASE Goes("rendering")
    <3>1. call' \in Calls /\ call'.at = "rendering" /\ call'.outcome = call.outcome
      BY <2>2, Going
    <3>2. ran' \in Runs /\ Same(Fields \ {"body"}) /\ (UNCHANGED ran \/ ran'.body = 1)
      BY <1>8, <2>1, Counting DEF RunBody
    <3> QED
      BY <1>8, <2>1, <3>1, <3>2 DEF RunBody
  <2>3. ASSUME NEW o \in {"raised", "jsonrpc"}, Raises(o)
        PROVE  ByPlace'
    <3>1. call' \in Calls /\ call'.at = "observing"
      BY <2>3, Ending
    <3>2. ran' \in Runs /\ Same(Fields \ {"body"}) /\ (UNCHANGED ran \/ ran'.body = 1)
      BY <1>8, <2>1, Counting DEF RunBody
    <3> QED
      BY <1>8, <2>1, <3>1, <3>2 DEF RunBody
  <2> QED
    BY <1>8, <2>2, <2>3 DEF RunBody
<1>9. CASE Render
  BY <1>9, Going, Ending DEF Render
<1>10. CASE HandleException
  BY <1>10, Going, Ending DEF HandleException
<1>11. CASE AfterResponse
  BY <1>11, Going, Calling DEF AfterResponse
<1>12. CASE Unwind
  <2>1. UNCHANGED handler /\ ran' \in Runs /\ ran'.open \subseteq ran.open \cap {"stray"} /\ Same(Fields \ {"open"})
    <3> DEFINE gone == {"container", "dependencies"}
    <3>1. ran' = [ran EXCEPT !.open = @ \ gone] /\ gone \in SUBSET Resources /\ UNCHANGED handler
      BY <1>12 DEF Unwind, Resources
    <3>2. ran.open \subseteq {"stray"} \union gone
      BY DEF Runs, Resources
    <3> HIDE DEF gone
    <3>3. ran' \in Runs /\ ran'.open = ran.open \ gone /\ Same(Fields \ {"open"})
      <4>1. ran \in Runs
        OBVIOUS
      <4> QED
        BY <3>1, <4>1, Setting
    <3> QED
      BY <3>1, <3>2, <3>3
  <2>2. call' \in Calls /\ call'.at = "after_tool"
    <3>1. CASE Goes("after_tool")
      BY <3>1, Going
    <3>2. CASE Ends("after_tool", "raised")
      BY <3>2, Ending
    <3> QED
      BY <1>12, <3>1, <3>2 DEF Unwind
  <2> QED
    BY <1>12, <2>1, <2>2 DEF Unwind
<1>13. CASE AfterToolCall
  <2> DEFINE n == IF handler.observed /\ call.outcome # "cancelled" THEN 1 ELSE 0
  <2>1. n \in {0, 1} /\ ran' = [ran EXCEPT !.afterTool = @ + n]
    BY <1>13 DEF AfterToolCall
  <2>2. ran' \in Runs /\ ran'.afterTool = n /\ Same(Fields \ {"afterTool"})
    BY <1>13, <2>1, Counting DEF AfterToolCall
  <2>3. call' \in Calls /\ call'.at = "over" /\ call'.outcome = call.outcome /\ handler' = handler
    BY <1>13, Going DEF AfterToolCall
  <2> QED
    BY <1>13, <2>2, <2>3 DEF AfterToolCall
<1>14. CASE Cancel
  <2>1. UNCHANGED handler
    BY <1>14 DEF Cancel
  <2>2. CASE call.at = "before_tool" /\ Ends("over", "cancelled") /\ UNCHANGED ran
    BY <2>1, <2>2, Ending, Nothing
  <2>3. CASE call.at = "after_response" /\ Ends("unwinding", "cancelled") /\ CallsAfterResponse
    BY <2>1, <2>3, Ending, Calling
  <2>4. CASE call.at = "unwinding" /\ Ends("unwinding", "cancelled") /\ UNCHANGED ran
    BY <2>1, <2>4, Ending
  <2>5. CASE call.at = "after_tool" /\ Ends("over", "cancelled") /\ ran' = [ran EXCEPT !.afterTool = @ + 1]
    <3>1. call' \in Calls /\ call'.at = "over" /\ call'.outcome = "cancelled"
      BY <2>5, Ending
    <3>2. ran' \in Runs /\ ran'.afterTool = 1 /\ Same(Fields \ {"afterTool"})
      BY <2>5, Counting
    <3> QED
      BY <2>1, <2>5, <3>1, <3>2
  <2>6. CASE /\ call.at \notin {"idle", "new", "over", "before_tool", "after_response", "unwinding", "after_tool"}
             /\ Ends("after_response", "cancelled")
             /\ IF call.at = "dependencies" THEN OpensSome ELSE UNCHANGED ran
    <3>1. call.at \in Inside /\ ran \in Runs
      BY <2>6 DEF Calls
    <3>2. call' \in Calls /\ call'.at = "after_response"
      BY <2>6, Ending
    <3>3. CASE UNCHANGED ran
      BY <2>1, <3>1, <3>2, <3>3
    <3>4. CASE call.at = "dependencies" /\ Opens("stray")
      <4>1. ran' \in Runs /\ ran'.open = ran'.opened /\ Same(Fields \ {"open", "opened"})
        BY <3>1, <3>4, Opening DEF Resources
      <4> QED
        BY <2>1, <3>2, <3>4, <4>1, Waiting
    <3> QED
      BY <2>6, <3>3, <3>4 DEF OpensSome
  <2> QED
    BY <1>14, <2>2, <2>3, <2>4, <2>5, <2>6 DEF Cancel
<1>15. CASE UNCHANGED callVars
  BY <1>15 DEF callVars
<1> QED
  BY <1>1, <1>2, <1>3, <1>4, <1>5, <1>6, <1>7, <1>8, <1>9, <1>10, <1>11, <1>12, <1>13, <1>14,
     <1>15 DEF CallNext, CallStep

\* What has run follows from the place of the call, after any failures and cancellations.
THEOREM PlaceTells == CallSpec => []ByPlace
BY InitByPlace, StepByPlace, PTL DEF CallSpec

\* The hooks, the clean-up and the handler run as often as they should for every set of
\* hooks, however the call ends (mcp/executor.py:357).
THEOREM Balance == CallSpec => []HooksBalanced
<1>1. ByPlace => HooksBalanced
  <2> SUFFICES ASSUME ByPlace, call.at = "over" PROVE HooksBalanced
    BY DEF HooksBalanced
  <2>1. ran \in Runs /\ (~ran.entered => ran = NothingRan)
    BY DEF ByPlace, CallTypeOK
  <2>2. ran.open \subseteq {"stray"} /\ (ran.body > 0 => ran.open = {}) /\ ~ran.late
    BY <2>1, Nothing DEF ByPlace
  <2> QED
    BY <2>1, <2>2, Nothing DEF ByPlace, HooksBalanced, Runs, Hooked, Observed
<1> QED
  BY <1>1, PlaceTells, PTL

\* No way through the pipeline reaches the handler before its guards.
THEOREM GuardedBody == CallSpec => []GuardsFirst
<1>1. ByPlace => GuardsFirst
  BY DEF ByPlace
<1> QED
  BY <1>1, PlaceTells, PTL

-----------------------------------------------------------------------------
(* Checks in order *)

LEMMA LeastNat ==
  ASSUME NEW S, S \subseteq Nat, S # {}
  PROVE  \E i \in S : \A k \in S : i <= k
<1>1. PICK i \in S : \A k \in S : ~(<<k, i>> \in OpToRel(<, Nat))
  BY NatLessThanWellFounded, WFMin
<1>2. \A k \in S : ~(k < i)
  BY <1>1 DEF OpToRel
<1> QED
  BY <1>2

\* The least of a set of numbers.
LEMMA MinIn ==
  ASSUME NEW S, S \subseteq Nat, S # {}
  PROVE  Min(S) \in S /\ \A k \in S : Min(S) <= k
BY LeastNat DEF Min

LEMMA Passing ==
  ASSUME NEW checks, DOMAIN checks \subseteq Nat, \A i \in DOMAIN checks : checks[i][2] # "none",
         FirstError(checks) = "none"
  PROVE  Pass(checks)
<1> DEFINE failing == {i \in DOMAIN checks : checks[i][1]}
<1>1. CASE failing = {}
  BY <1>1 DEF Pass
<1>2. CASE failing # {}
  <2>1. Min(failing) \in DOMAIN checks
    BY <1>2, MinIn
  <2>2. FirstError(checks) = checks[Min(failing)][2]
    BY <1>2 DEF FirstError
  <2> QED
    BY <2>1, <2>2
<1> QED
  BY <1>1, <1>2

LEMMA Faultless ==
  ASSUME NEW faults, DOMAIN faults \subseteq Nat, \A i \in DOMAIN faults : faults[i][2] # "none",
         FirstFault(faults) = "none"
  PROVE  \A i \in DOMAIN faults : ~faults[i][1]
<1> DEFINE found == {i \in DOMAIN faults : faults[i][1]}
<1>1. CASE found = {}
  BY <1>1
<1>2. CASE found # {}
  <2>1. Min(found) \in DOMAIN faults
    BY <1>2, MinIn
  <2>2. FirstFault(faults) = faults[Min(found)][2]
    BY <1>2 DEF FirstFault
  <2> QED
    BY <2>1, <2>2
<1> QED
  BY <1>1, <1>2

-----------------------------------------------------------------------------
LEMMA Upto == 1..1 = {1} /\ 1..2 = {1, 2} /\ 1..3 = {1, 2, 3} /\ 1..4 = {1, 2, 3, 4}
OBVIOUS

LEMMA Upto6 == 1..6 = {1, 2, 3, 4, 5, 6} /\ 1..8 = {1, 2, 3, 4, 5, 6, 7, 8}
OBVIOUS

LEMMA Checks ==
  /\ DOMAIN EnvelopeChecks = 1..6 /\ DOMAIN ToolErrors = 1..6
  /\ \A m, h, fields : DOMAIN ModernChecks(m, h, fields) = 1..6
<1>1. DOMAIN EnvelopeChecks = 1..6
  BY DEF EnvelopeChecks
<1>2. DOMAIN ToolErrors = 1..6
  BY DEF ToolErrors
<1>3. ASSUME NEW m, NEW h, NEW fields PROVE DOMAIN ModernChecks(m, h, fields) = 1..6
  BY DEF ModernChecks
<1> QED
  BY <1>1, <1>2, <1>3

LEMMA EnvelopePasses ==
  ASSUME Pass(EnvelopeChecks), message.body \in {"object", "other", "junk"}
  PROVE  headers.origin # "foreign" /\ message.body = "object" /\ message.id = "given" /\ message.jsonrpc
<1>1. DOMAIN EnvelopeChecks = 1..6
  BY Checks
<1>2. ~EnvelopeChecks[1][1] /\ ~EnvelopeChecks[2][1] /\ ~EnvelopeChecks[4][1] /\ ~EnvelopeChecks[5][1] /\ ~EnvelopeChecks[6][1]
  BY <1>1 DEF Pass
<1>3. headers.origin # "foreign" /\ message.body # "junk"
  BY <1>2 DEF EnvelopeChecks
<1>4. (message.body = "object" => message.id = "given") /\ message.body # "other"
  BY <1>2 DEF EnvelopeChecks
<1>5. message.jsonrpc
  BY <1>2 DEF EnvelopeChecks
<1> QED
  BY <1>3, <1>4, <1>5

LEMMA ModernPass ==
  ASSUME NEW m, NEW h, NEW fields, FirstError(ModernChecks(m, h, fields)) = "none"
  PROVE  /\ m.meta = "object" /\ m.version \notin {"none", "odd"} /\ m.capabilities = "object"
         /\ h.version = m.version /\ h.method = m.method
         /\ m.method \in Named => m.name # "none" /\ Decode(h.name) = m.name
         /\ m.method = "tools/call" /\ m.arguments # "other" => ~ParamDiffers(m, h, fields)
<1>1. DOMAIN ModernChecks(m, h, fields) = 1..6
  BY Checks
<1>2. ASSUME NEW i \in 1..6 PROVE ModernChecks(m, h, fields)[i][2] # "none"
  <2>1. /\ ModernChecks(m, h, fields)[1][2] # "none" /\ ModernChecks(m, h, fields)[2][2] # "none"
        /\ ModernChecks(m, h, fields)[3][2] # "none" /\ ModernChecks(m, h, fields)[4][2] # "none"
        /\ ModernChecks(m, h, fields)[5][2] # "none" /\ ModernChecks(m, h, fields)[6][2] # "none"
    BY DEF ModernChecks
  <2> QED
    BY <2>1, Upto6
<1>3. \A i \in 1..6 : ~ModernChecks(m, h, fields)[i][1]
  <2>1. Pass(ModernChecks(m, h, fields))
    BY <1>1, <1>2, Passing
  <2> QED
    BY <1>1, <2>1 DEF Pass
<1>4. m.meta = "object" /\ m.version \notin {"none", "odd"} /\ m.capabilities = "object"
  <2>1. ~ModernChecks(m, h, fields)[1][1]
    BY <1>3
  <2> QED
    BY <2>1 DEF ModernChecks
<1>5. h.version = m.version /\ h.method = m.method
  <2>1. ~ModernChecks(m, h, fields)[2][1]
    BY <1>3
  <2> QED
    BY <2>1 DEF ModernChecks
<1>6. m.method \in Named => m.name # "none" /\ Decode(h.name) = m.name
  <2>1. ~ModernChecks(m, h, fields)[5][1]
    BY <1>3
  <2> QED
    BY <2>1 DEF ModernChecks
<1>7. m.method = "tools/call" /\ m.arguments # "other" => ~ParamDiffers(m, h, fields)
  <2>1. ~ModernChecks(m, h, fields)[6][1]
    BY <1>3
  <2> QED
    BY <2>1 DEF ModernChecks
<1> QED
  BY <1>4, <1>5, <1>6, <1>7

\* What the checks of headers and metadata make sure of.
LEMMA HeadersPass ==
  ASSUME HeaderError = "none"
  PROVE  /\ headers.method \in {"none", message.method}
         /\ message.method \in Named => headers.name = NoHeader \/ Decode(headers.name) = message.name
         /\ HasMetadata(message) =>
              /\ headers.version = message.version
              /\ message.method \in Named => message.name # "none" /\ Decode(headers.name) = message.name
              /\ message.method = "tools/call" /\ message.arguments # "other" => ~ParamDiffers(message, headers, ToolFields)
<1>1. CASE IsModern(message, headers)
  <2>1. FirstError(ModernChecks(message, headers, ToolFields)) = "none"
    BY <1>1 DEF HeaderError, MetadataError
  <2> QED
    BY <2>1, ModernPass
<1>2. CASE ~IsModern(message, headers)
  BY <1>2 DEF IsModern
<1> QED
  BY <1>1, <1>2

\* No check's error is called a task.
LEMMA Erring ==
  ASSUME NEW checks, DOMAIN checks \subseteq Nat, ~Pass(checks)
  PROVE  \E i \in DOMAIN checks : FirstError(checks) = checks[i][2]
<1> DEFINE failing == {i \in DOMAIN checks : checks[i][1]}
<1>1. failing # {}
  BY DEF Pass
<1>2. Min(failing) \in DOMAIN checks
  BY <1>1, MinIn
<1> QED
  BY <1>1, <1>2 DEF FirstError

LEMMA Clear == ASSUME NEW checks, Pass(checks) PROVE FirstError(checks) = "none"
BY DEF Pass, FirstError

LEMMA EnvelopeTells == ~Pass(EnvelopeChecks) => EnvelopeAnswer[2] # "task"
<1> SUFFICES ASSUME ~Pass(EnvelopeChecks) PROVE EnvelopeAnswer[2] # "task"
  OBVIOUS
<1>1. PICK i \in 1..6 : EnvelopeAnswer = EnvelopeChecks[i][2]
  BY Checks, Erring DEF EnvelopeAnswer
<1>2. /\ EnvelopeChecks[1][2][2] # "task" /\ EnvelopeChecks[2][2][2] # "task" /\ EnvelopeChecks[3][2][2] # "task"
      /\ EnvelopeChecks[4][2][2] # "task" /\ EnvelopeChecks[5][2][2] # "task" /\ EnvelopeChecks[6][2][2] # "task"
  BY DEF EnvelopeChecks
<1> QED
  BY <1>1, <1>2, Upto6

LEMMA HeaderTells == HeaderError # "task"
<1> DEFINE checks == ModernChecks(message, headers, ToolFields)
<1>1. FirstError(checks) # "task"
  <2>1. /\ checks[1][2] # "task" /\ checks[2][2] # "task" /\ checks[3][2] # "task"
        /\ checks[4][2] # "task" /\ checks[5][2] # "task" /\ checks[6][2] # "task"
    BY DEF ModernChecks
  <2>2. DOMAIN checks = 1..6
    BY Checks
  <2> HIDE DEF checks
  <2>3. CASE Pass(checks)
    BY <2>3, Clear
  <2>4. CASE ~Pass(checks)
    <3>1. PICK i \in 1..6 : FirstError(checks) = checks[i][2]
      BY <2>2, <2>4, Erring
    <3> QED
      BY <2>1, <3>1, Upto6
  <2> QED
    BY <2>3, <2>4
<1> QED
  BY <1>1 DEF HeaderError, MetadataError

LEMMA ToolTells == ToolError # "task"
<1>1. /\ ToolErrors[1][2] # "task" /\ ToolErrors[2][2] # "task" /\ ToolErrors[3][2] # "task"
      /\ ToolErrors[4][2] # "task" /\ ToolErrors[5][2] # "task" /\ ToolErrors[6][2] # "task"
  BY DEF ToolErrors
<1>2. CASE Pass(ToolErrors)
  BY <1>2, Clear DEF ToolError
<1>3. CASE ~Pass(ToolErrors)
  <2>1. PICK i \in 1..6 : ToolError = ToolErrors[i][2]
    BY <1>3, Checks, Erring DEF ToolError
  <2> QED
    BY <1>1, <2>1, Upto6
<1> QED
  BY <1>2, <1>3

LEMMA ToolPass ==
  ASSUME ToolError = "none"
  PROVE  /\ Registered(message.name) /\ server.visible /\ message.arguments # "other"
         /\ server.requires = "special" => "special" \in message.declares
         /\ server.support = "required" => "tasks" \in message.declares
<1>1. DOMAIN ToolErrors = 1..6
  BY Checks
<1>2. ASSUME NEW i \in 1..6 PROVE ToolErrors[i][2] # "none"
  <2>1. /\ ToolErrors[1][2] # "none" /\ ToolErrors[2][2] # "none" /\ ToolErrors[3][2] # "none"
        /\ ToolErrors[4][2] # "none" /\ ToolErrors[5][2] # "none" /\ ToolErrors[6][2] # "none"
    BY DEF ToolErrors
  <2> QED
    BY <2>1, Upto6
<1>3. \A i \in 1..6 : ~ToolErrors[i][1]
  <2>1. Pass(ToolErrors)
    BY <1>1, <1>2, Passing DEF ToolError
  <2> QED
    BY <1>1, <2>1 DEF Pass
<1>4. ~ToolErrors[2][1] /\ ~ToolErrors[4][1] /\ ~ToolErrors[5][1] /\ ~ToolErrors[6][1]
  BY <1>3
<1>5. Registered(message.name) /\ server.visible
  BY <1>4 DEF ToolErrors, Missing
<1>6. message.arguments # "other" /\ (server.requires = "special" => "special" \in message.declares)
  BY <1>4 DEF ToolErrors
<1>7. server.support = "required" => "tasks" \in message.declares
  BY <1>4 DEF ToolErrors
<1> QED
  BY <1>5, <1>6, <1>7

-----------------------------------------------------------------------------
(* The requests to the MCP endpoint *)

Found == message.body \in {"object", "other", "junk"} /\ message.params \in {"object", "array"}
         /\ message.arguments \in {"object", "invalid", "other"}

\* What is made sure of before a task is created, or a handler called.
Admitted ==
  /\ headers.origin # "foreign" /\ message.jsonrpc /\ message.id = "given"
  /\ Registered(message.name) /\ server.visible
  /\ headers.method \in {"none", message.method}
  /\ headers.name = NoHeader \/ Decode(headers.name) = message.name
  /\ HasMetadata(message) => headers.version = message.version /\ headers.name # NoHeader
  /\ message.method = "tools/call" =>
       /\ server.requires = "special" => "special" \in message.declares
       /\ server.support = "required" => "tasks" \in message.declares
       /\ HasMetadata(message) => ~ParamDiffers(message, headers, ToolFields)

Sent == message.method = "tools/call" => message.arguments = "object"

Admission ==
  /\ ByPlace
  /\ at = "ready" => scene \in Scenes
  /\ at \in {"ready", "sent", "routed"} => call.at = "idle" /\ reply = NoReply /\ Found
  /\ at = "routed" => Pass(EnvelopeChecks) /\ HeaderError = "none"
  /\ at = "called" => Admitted /\ Sent
  /\ ran.body > 0 => Admitted /\ Sent
  /\ reply.what = "task" => Admitted

LEMMA Decoded == Decode(NoHeader) = "none"
BY DEF Decode, NoHeader

LEMMA Admitting ==
  ASSUME Pass(EnvelopeChecks), HeaderError = "none", Found, message.method \in Named,
         Registered(message.name), server.visible,
         message.method = "tools/call" =>
           /\ message.arguments # "other"
           /\ server.requires = "special" => "special" \in message.declares
           /\ server.support = "required" => "tasks" \in message.declares
  PROVE  Admitted
<1>1. headers.origin # "foreign" /\ message.jsonrpc /\ message.id = "given"
  BY EnvelopePasses DEF Found
<1>2. /\ headers.method \in {"none", message.method}
      /\ headers.name = NoHeader \/ Decode(headers.name) = message.name
      /\ HasMetadata(message) =>
           /\ headers.version = message.version
           /\ message.name # "none" /\ Decode(headers.name) = message.name
           /\ message.method = "tools/call" => ~ParamDiffers(message, headers, ToolFields)
  BY HeadersPass
<1>3. HasMetadata(message) => headers.name # NoHeader
  BY <1>2, Decoded
<1> QED
  BY <1>1, <1>2, <1>3 DEF Admitted

LEMMA AdmissionInit == Init => Admission
<1>1. CallInit => ByPlace /\ call.at = "idle" /\ ran.body = 0
  BY InitByPlace DEF CallInit, Idle, NothingRan
<1>2. ASSUME McpInit PROVE Admission
  <2>1. at = "ready" /\ reply = NoReply /\ CallInit /\ scene \in Scenes
    BY <1>2 DEF McpInit
  <2>2. Found
    BY <2>1, ScenesAssumption DEF ScenesAssumption, Found, message
  <2>3. reply.what = "none"
    BY <2>1 DEF NoReply
  <2> QED
    BY <1>1, <2>1, <2>2, <2>3 DEF Admission
<1>3. ASSUME McpIdle PROVE Admission
  <2>1. at = "done" /\ reply = NoReply /\ CallInit
    BY <1>3 DEF McpIdle
  <2>2. reply.what = "none"
    BY <2>1 DEF NoReply
  <2> QED
    BY <1>1, <2>1, <2>2 DEF Admission
<1> QED
  BY <1>2, <1>3 DEF Init

\* An answer that is no task, or to a request that is let in.
LEMMA Answered ==
  ASSUME Admission, NEW status, NEW what, NEW id, Answer(status, what, id), UNCHANGED callVars, what = "task" => Admitted
  PROVE  Admission'
<1>1. at' = "done" /\ scene' = scene /\ reply'.what = what /\ UNCHANGED <<call, ran, handler>>
  BY DEF Answer, callVars
<1>2. ByPlace'
  BY <1>1, StepByPlace DEF Admission, callVars
<1>3. Admitted' = Admitted /\ Sent' = Sent
  BY <1>1 DEF Admitted, Sent, message, headers, server, ToolFields
<1> QED
  BY <1>1, <1>2, <1>3 DEF Admission

LEMMA Answering ==
  ASSUME Admission, NEW what, Responds(what), UNCHANGED callVars, what = "task" => Admitted
  PROVE  Admission'
BY Answered DEF Responds

LEMMA Beginning ==
  ASSUME Admission, NEW isTool \in BOOLEAN, Begins(isTool), Admitted, Sent, at = "routed"
  PROVE  Admission'
<1>1. at' = "called" /\ UNCHANGED <<scene, reply>> /\ CallBegins(isTool) /\ ran' = ran
  BY DEF Begins, CallBegins
<1>2. ByPlace'
  BY <1>1, StepByPlace DEF Admission, CallNext
<1>3. Admitted' = Admitted /\ Sent' = Sent
  BY <1>1 DEF Admitted, Sent, message, headers, server, ToolFields
<1> QED
  BY <1>1, <1>2, <1>3 DEF Admission

LEMMA Sending ==
  ASSUME at = "ready", Found, scene \in Scenes, Send
  PROVE  Found' /\ scene' = [sender |-> scene.sender, message |-> Prepared.message, headers |-> Prepared.headers,
                             server |-> scene.server]
<1> DEFINE m == Prepared.message
<1>1. /\ scene = [sender |-> scene.sender, message |-> scene.message, headers |-> scene.headers, server |-> scene.server]
      /\ scene.message = [f \in MessageFields |-> scene.message[f]]
  BY ScenesAssumption DEF ScenesAssumption
<1>2. scene' = [sender |-> scene.sender, message |-> m, headers |-> Prepared.headers, server |-> scene.server]
  <2>1. scene' = [scene EXCEPT !.message = m, !.headers = Prepared.headers]
    BY DEF Send
  <2> HIDE DEF m
  <2> QED
    BY <1>1, <2>1
<1>3. m \in {message, WithMetadata(message)}
  BY DEF Prepared, ByClient, ByBridge
<1>4. DOMAIN message = MessageFields
  BY <1>1 DEF message
<1>5. /\ WithMetadata(message).body = message.body /\ WithMetadata(message).params = message.params
      /\ WithMetadata(message).arguments = message.arguments
  BY <1>4 DEF WithMetadata, MessageFields
<1>6. scene'.message = m
  BY <1>2
<1> HIDE DEF m
<1>7. Found'
  BY <1>3, <1>5, <1>6 DEF Found, message
<1> QED
  BY <1>2, <1>7 DEF m

LEMMA AdmissionNext == Admission /\ [Next]_vars => Admission'
<1> SUFFICES ASSUME Admission, [Next]_vars PROVE Admission'
  OBVIOUS
<1>0. ASSUME UNCHANGED mcpVars PROVE Admission'
  <2>1. UNCHANGED <<scene, at, reply, call, ran, handler>>
    BY <1>0 DEF mcpVars
  <2>2. ByPlace'
    BY <2>1, StepByPlace DEF Admission, callVars
  <2>3. Admitted' = Admitted /\ Sent' = Sent /\ Found' = Found /\ Pass(EnvelopeChecks)' = Pass(EnvelopeChecks)
        /\ HeaderError' = HeaderError
    BY <2>1 DEF Admitted, Sent, Found, message, headers, server, ToolFields, EnvelopeChecks, IsNotification, HeaderError
  <2> QED
    BY <2>1, <2>2, <2>3 DEF Admission
<1>i. at \in {"sent", "routed", "ready"} => call.at = "idle" /\ ran.body = 0 /\ reply.what = "none" /\ Found
  <2>1. NoReply.what = "none"
    BY DEF NoReply
  <2>2. call.at = "idle" => ran = NothingRan
    BY DEF Admission, ByPlace, Outside
  <2>3. at \in {"sent", "routed", "ready"} => call.at = "idle" /\ reply = NoReply /\ Found
    BY DEF Admission
  <2> QED
    BY <2>1, <2>2, <2>3, Nothing
<1>r. at = "routed" => Pass(EnvelopeChecks) /\ HeaderError = "none"
  BY DEF Admission
<1>c. at = "called" => Admitted /\ Sent
  BY DEF Admission
<1>s. scene' = scene => Admitted' = Admitted /\ Sent' = Sent /\ Found' = Found /\ Pass(EnvelopeChecks)' = Pass(EnvelopeChecks)
                         /\ HeaderError' = HeaderError
  BY DEF Admitted, Sent, Found, message, headers, server, ToolFields, EnvelopeChecks, IsNotification, HeaderError
<1>b. UNCHANGED callVars => ByPlace'
  BY StepByPlace DEF Admission
<1>1. CASE Send
  <2>1. at = "ready" /\ at' = "sent" /\ UNCHANGED <<reply, call, ran, handler>> /\ scene \in Scenes
    BY <1>1 DEF Send, callVars, Admission
  <2>2. Found'
    BY <1>1, <1>i, <2>1, Sending
  <2> QED
    BY <1>i, <1>b, <2>1, <2>2 DEF Admission, callVars
<1>2. CASE Refuse
  <2>1. UNCHANGED callVars
    BY <1>2 DEF Refuse
  <2>2. ASSUME NEW status, NEW what, NEW id, Answer(status, what, id), what # "task" PROVE Admission'
    BY <2>1, <2>2, Answered
  <2>3. CASE ~Pass(EnvelopeChecks) /\ Answer(EnvelopeAnswer[1], EnvelopeAnswer[2], EnvelopeAnswer[3])
    BY <2>2, <2>3, EnvelopeTells
  <2>4. CASE HeaderError # "none" /\ Answer(IF HeaderError = "method not found" THEN 404 ELSE 400, HeaderError, "given")
    BY <2>2, <2>4, HeaderTells
  <2>5. CASE Answer(404, "method not found", "given")
    BY <2>2, <2>5
  <2> QED
    BY <1>2, <2>3, <2>4, <2>5 DEF Refuse
<1>3. CASE Listen
  <2>1. UNCHANGED callVars /\ at = "sent"
    BY <1>3 DEF Listen, Accepted
  <2>2. ASSUME NEW status, NEW what, NEW id, Answer(status, what, id), what # "task" PROVE Admission'
    BY <2>1, <2>2, Answered
  <2>3. CASE at' = "listening" /\ UNCHANGED <<scene, reply>>
    BY <1>i, <1>b, <2>1, <2>3 DEF Admission, callVars
  <2> QED
    BY <1>3, <2>2, <2>3 DEF Listen
<1>4. CASE Route
  BY <1>4, <1>i, <1>s, <1>b DEF Route, Accepted, Admission, callVars
<1>5. ASSUME UNCHANGED callVars, NEW what, Responds(what), what # "task" PROVE Admission'
  BY <1>5, Answering
<1>6. CASE Describe
  BY <1>5, <1>6 DEF Describe, Crashes
<1>7. CASE List
  BY <1>5, <1>7 DEF List, Crashes
<1>8. CASE SkillsGet
  BY <1>5, <1>8 DEF SkillsGet, Crashes
<1>9. CASE Tasks
  BY <1>5, <1>9 DEF Tasks, Crashes
<1>10. CASE ToolsCall
  <2>1. at = "routed" /\ message.method = "tools/call" /\ message.method \in Named
    BY <1>10 DEF ToolsCall, Dispatched, Named
  <2>2. CASE ToolError # "none" /\ Responds(ToolError) /\ UNCHANGED callVars
    BY <1>5, <2>2, ToolTells
  <2>3. ASSUME ToolError = "none" PROVE Admitted
    <3>1. /\ Registered(message.name) /\ server.visible /\ message.arguments # "other"
          /\ server.requires = "special" => "special" \in message.declares
          /\ server.support = "required" => "tasks" \in message.declares
      BY <2>3, ToolPass
    <3> QED
      BY <1>i, <1>r, <2>1, <3>1, Admitting
  <2>4. CASE ToolError = "none" /\ (Responds("task") \/ Crashes) /\ UNCHANGED callVars
    BY <2>3, <2>4, Answering DEF Crashes
  <2>5. CASE ToolError = "none" /\ message.arguments = "invalid" /\ Responds("tool error") /\ UNCHANGED callVars
    BY <1>5, <2>5
  <2>6. CASE ToolError = "none" /\ message.arguments # "invalid" /\ Begins(TRUE)
    <3>1. message.arguments # "other"
      BY <2>6, ToolPass
    <3>2. Sent
      BY <1>i, <2>1, <2>6, <3>1 DEF Found, Sent
    <3> QED
      BY <2>1, <2>3, <2>6, <3>2, Beginning
  <2> QED
    BY <1>10, <2>2, <2>4, <2>5, <2>6 DEF ToolsCall
<1>11. ASSUME NEW m \in {"resources/read", "prompts/get"}, Dispatched({m}), Missing = "none", Begins(FALSE) PROVE Admission'
  <2>1. at = "routed" /\ message.method \in Named /\ message.method # "tools/call" /\ Registered(message.name) /\ server.visible
    BY <1>11 DEF Dispatched, Named, Missing
  <2>2. Admitted
    BY <1>i, <1>r, <2>1, Admitting
  <2> QED
    BY <1>11, <2>1, <2>2, Beginning DEF Sent
<1>12. CASE ResourcesRead
  <2>1. CASE Begins(FALSE) /\ Missing = "none"
    BY <1>11, <1>12, <2>1 DEF ResourcesRead
  <2>2. CASE UNCHANGED callVars /\ \E what \in {"internal error", "invalid params", "result"} : Responds(what)
    BY <1>5, <2>2
  <2> QED
    BY <1>12, <2>1, <2>2 DEF ResourcesRead, Crashes
<1>13. CASE PromptsGet
  <2>1. CASE Begins(FALSE) /\ Missing = "none"
    BY <1>11, <1>13, <2>1 DEF PromptsGet
  <2>2. CASE UNCHANGED callVars /\ \E what \in {"internal error", "invalid params", "result"} : Responds(what)
    BY <1>5, <2>2
  <2>3. message.params \in {"object", "array"}
    BY <1>i, <1>13 DEF PromptsGet, Dispatched, Found
  <2> QED
    BY <1>13, <2>1, <2>2, <2>3 DEF PromptsGet, Crashes
<1>14. CASE HandlerSteps \/ Disconnect
  <2>1. at = "called" /\ UNCHANGED <<scene, at, reply>> /\ CallNext
    BY <1>14 DEF HandlerSteps, Disconnect, requestVars, CallNext
  <2>2. ByPlace'
    BY <2>1, StepByPlace DEF Admission
  <2> QED
    BY <1>c, <1>s, <2>1, <2>2 DEF Admission
<1>15. CASE CallEnds
  <2>1. at = "called" /\ UNCHANGED callVars
    BY <1>15 DEF CallEnds
  <2>2. ASSUME NEW what, Responds(what) PROVE Admission'
    BY <1>c, <2>1, <2>2, Answering
  <2>3. CASE at' = "gone" /\ UNCHANGED <<scene, reply>>
    BY <1>c, <1>s, <1>b, <2>1, <2>3 DEF Admission, callVars
  <2> QED
    BY <1>15, <2>2, <2>3 DEF CallEnds
<1>16. CASE McpNext
  BY <1>16, <1>1, <1>2, <1>3, <1>4, <1>6, <1>7, <1>8, <1>9, <1>10, <1>12, <1>13, <1>14, <1>15 DEF McpNext
<1> QED
  BY <1>0, <1>16 DEF Next, vars

-----------------------------------------------------------------------------
(* Requests to the A2A endpoint: the routes they come to *)

LEMMA Tenanted ==
  ASSUME NEW S, NEW t \in S, NEW p \in Seq(S), NEW q, q = <<t>> \o p
  PROVE  /\ q \in Seq(S) /\ DOMAIN q = 1..Len(q) /\ Len(q) = Len(p) + 1 /\ Len(p) \in Nat /\ q[1] = t
         /\ \A i \in 1..Len(p) : q[i + 1] = p[i]
OBVIOUS

Config == "pushNotificationConfigs"
Firsts == {"message:send", "message:stream", "tasks", "extendedAgentCard"}
Segment ==
  Firsts \union {"*", Config, "id", "id:subscribe", "id:cancel", "push", "unknown", ask.tenant.path}

At(r, verbs, goal) == r.verbs = verbs /\ r.handler = goal
Single(name, r) ==
  \/ name = "message:send" /\ At(r, {"POST"}, "SendMessage")
  \/ name = "message:stream" /\ At(r, {"POST"}, "SendStreamingMessage")
  \/ name = "tasks" /\ At(r, {"GET"}, "ListTasks")
  \/ name = "extendedAgentCard" /\ At(r, {"GET"}, "GetExtendedAgentCard")
OnTask(r) == At(r, {"GET", "POST"}, "task")
OnConfigs(r) == At(r, {"POST"}, "CreateTaskPushNotificationConfig") \/ At(r, {"GET"}, "ListTaskPushNotificationConfigs")
OnConfig(r) == At(r, {"GET"}, "GetTaskPushNotificationConfig") \/ At(r, {"DELETE"}, "DeleteTaskPushNotificationConfig")

Plain == {JsonRpcRoute} \union RestRoute

\* The routes without a tenant, by their length.
PlainForm(e) ==
  LET p == e.path IN
  /\ e = [verbs |-> e.verbs, path |-> p, handler |-> e.handler]
  /\ p \in Seq(Segment) /\ Len(p) \in 0..4
  /\ Len(p) = 0 => At(e, {"POST"}, "jsonrpc")
  /\ Len(p) = 1 => Single(p[1], e)
  /\ Len(p) = 2 => p[1] = "tasks" /\ p[2] = "*" /\ OnTask(e)
  /\ Len(p) = 3 => p[1] = "tasks" /\ p[2] = "*" /\ p[3] = Config /\ OnConfigs(e)
  /\ Len(p) = 4 => p[1] = "tasks" /\ p[2] = "*" /\ p[3] = Config /\ p[4] = "*" /\ OnConfig(e)

LEMMA Literals ==
  /\ \A x \in Firsts : x \in Segment
  /\ "*" \in Segment /\ Config \in Segment /\ "id" \in Segment /\ "id:subscribe" \in Segment /\ "id:cancel" \in Segment
  /\ "push" \in Segment /\ "unknown" \in Segment /\ ask.tenant.path \in Segment
BY DEF Segment

LEMMA Formed1 ==
  ASSUME NEW a \in Segment, NEW verbs, NEW goal, NEW e, e = RouteAt(verbs, <<a>>, goal), Single(a, e)
  PROVE  PlainForm(e)
<1> DEFINE p == <<a>>
<1>1. p \in Seq(Segment) /\ Len(p) = 1 /\ p[1] = a
  OBVIOUS
<1>2. e.path = p /\ e = [verbs |-> e.verbs, path |-> p, handler |-> e.handler]
  BY DEF RouteAt
<1> HIDE DEF p
<1>3. Len(p) \in 0..4 /\ Len(p) \notin {0, 3, 4, 2}
  BY <1>1
<1>4. Single(p[1], e)
  BY <1>1 DEF Single
<1> QED
  BY <1>1, <1>2, <1>3, <1>4 DEF PlainForm

LEMMA Formed2 ==
  ASSUME NEW a \in Segment, NEW b \in Segment, NEW verbs, NEW goal, NEW e, e = RouteAt(verbs, <<a, b>>, goal),
         a = "tasks", b = "*", OnTask(e)
  PROVE  PlainForm(e)
<1> DEFINE p == <<a, b>>
<1>1. p \in Seq(Segment) /\ Len(p) = 2 /\ p[1] = a /\ p[2] = b
  OBVIOUS
<1>2. e.path = p /\ e = [verbs |-> e.verbs, path |-> p, handler |-> e.handler]
  BY DEF RouteAt
<1> HIDE DEF p
<1>3. Len(p) \in 0..4 /\ Len(p) \notin {0, 3, 4, 1}
  BY <1>1
<1> QED
  BY <1>1, <1>2, <1>3 DEF PlainForm

LEMMA Formed3 ==
  ASSUME NEW a \in Segment, NEW b \in Segment, NEW c \in Segment, NEW verbs, NEW goal, NEW e,
         e = RouteAt(verbs, <<a, b, c>>, goal), a = "tasks", b = "*", c = Config, OnConfigs(e)
  PROVE  PlainForm(e)
<1> DEFINE p == <<a, b, c>>
<1>1. p \in Seq(Segment) /\ Len(p) = 3 /\ p[1] = a /\ p[2] = b /\ p[3] = c
  OBVIOUS
<1>2. e.path = p /\ e = [verbs |-> e.verbs, path |-> p, handler |-> e.handler]
  BY DEF RouteAt
<1> HIDE DEF p
<1> QED
  BY <1>1, <1>2 DEF PlainForm

LEMMA Formed4 ==
  ASSUME NEW a \in Segment, NEW b \in Segment, NEW c \in Segment, NEW d \in Segment, NEW verbs, NEW goal, NEW e,
         e = RouteAt(verbs, <<a, b, c, d>>, goal), a = "tasks", b = "*", c = Config, d = "*", OnConfig(e)
  PROVE  PlainForm(e)
<1> DEFINE p == <<a, b, c, d>>
<1>1. p \in Seq(Segment) /\ Len(p) = 4 /\ p[1] = a /\ p[2] = b /\ p[3] = c /\ p[4] = d
  OBVIOUS
<1>2. e.path = p /\ e = [verbs |-> e.verbs, path |-> p, handler |-> e.handler]
  BY DEF RouteAt
<1> HIDE DEF p
<1> QED
  BY <1>1, <1>2 DEF PlainForm

LEMMA PlainForms == \A e \in Plain : PlainForm(e)
<1>1. PlainForm(JsonRpcRoute)
  <2> DEFINE p == <<>>
             e == JsonRpcRoute
  <2>1. p \in Seq(Segment) /\ Len(p) = 0
    OBVIOUS
  <2>2. e.path = p /\ e = [verbs |-> e.verbs, path |-> p, handler |-> e.handler] /\ At(e, {"POST"}, "jsonrpc")
    BY DEF JsonRpcRoute, RouteAt, At
  <2> HIDE DEF p, e
  <2>3. PlainForm(e)
    BY <2>1, <2>2 DEF PlainForm
  <2> QED
    BY <2>3 DEF e
<1>2. ASSUME NEW e \in RestRoute PROVE PlainForm(e)
  <2> DEFINE Of(verbs, path, goal) == e = RouteAt(verbs, path, goal)
  <2>1. \/ Of({"POST"}, <<"message:send">>, "SendMessage")
        \/ Of({"POST"}, <<"message:stream">>, "SendStreamingMessage")
        \/ Of({"GET", "POST"}, <<"tasks", "*">>, "task")
        \/ Of({"GET"}, <<"tasks">>, "ListTasks")
        \/ Of({"POST"}, <<"tasks", "*", Config>>, "CreateTaskPushNotificationConfig")
        \/ Of({"GET"}, <<"tasks", "*", Config>>, "ListTaskPushNotificationConfigs")
        \/ Of({"GET"}, <<"tasks", "*", Config, "*">>, "GetTaskPushNotificationConfig")
        \/ Of({"DELETE"}, <<"tasks", "*", Config, "*">>, "DeleteTaskPushNotificationConfig")
        \/ Of({"GET"}, <<"extendedAgentCard">>, "GetExtendedAgentCard")
    BY <1>2 DEF RestRoute, Config
  <2>2. \A verbs, path, goal : Of(verbs, path, goal) => At(e, verbs, goal)
    BY DEF RouteAt, At
  <2>3. \A a \in Firsts : \A verbs, goal : Of(verbs, <<a>>, goal) /\ Single(a, e) => PlainForm(e)
    BY Formed1, Literals
  <2>4. Of({"GET", "POST"}, <<"tasks", "*">>, "task") => PlainForm(e)
    <3>1. ASSUME Of({"GET", "POST"}, <<"tasks", "*">>, "task") PROVE PlainForm(e)
      <4>1. OnTask(e)
        BY <2>2, <3>1 DEF OnTask
      <4> QED
        BY <3>1, <4>1, Formed2, Literals DEF Firsts
    <3> QED
      BY <3>1
  <2>5. \A verbs, goal : Of(verbs, <<"tasks", "*", Config>>, goal) /\ OnConfigs(e) => PlainForm(e)
    BY Formed3, Literals DEF Firsts
  <2>6. \A verbs, goal : Of(verbs, <<"tasks", "*", Config, "*">>, goal) /\ OnConfig(e) => PlainForm(e)
    BY Formed4, Literals DEF Firsts
  <2> HIDE DEF Of
  <2> QED
    BY <2>1, <2>2, <2>3, <2>4, <2>5, <2>6 DEF Single, OnConfigs, OnConfig, Firsts
<1> QED
  BY <1>1, <1>2 DEF Plain

\* A route is one of those without a tenant, or one of them with.
Tenants(p) == <<"*">> \o p

LEMMA Longer ==
  ASSUME NEW p \in Seq(Segment)
  PROVE  /\ Tenants(p) \in Seq(Segment) /\ Len(Tenants(p)) = Len(p) + 1 /\ Len(p) \in Nat /\ Tenants(p)[1] = "*"
         /\ \A i \in 1..Len(p) : Tenants(p)[i + 1] = p[i]
BY Tenanted, Literals DEF Tenants

LEMMA BothPaths ==
  ASSUME NEW e, PlainForm(e)
  PROVE  /\ \A r \in Paths(e) : At(r, e.verbs, e.handler) /\ r.path \in {e.path, Tenants(e.path)}
         /\ \E r \in Paths(e) : At(r, e.verbs, e.handler) /\ r.path = e.path
         /\ \E r \in Paths(e) : At(r, e.verbs, e.handler) /\ r.path = Tenants(e.path)
<1>1. e = [verbs |-> e.verbs, path |-> e.path, handler |-> e.handler]
  BY DEF PlainForm
<1> DEFINE q == Tenants(e.path)
           f == [e EXCEPT !.path = q]
<1>2. Paths(e) = {e, f}
  BY DEF Paths, Tenants
<1> HIDE DEF q
<1>3. f.path = q /\ At(f, e.verbs, e.handler)
  BY <1>1 DEF At
<1>4. At(e, e.verbs, e.handler)
  BY DEF At
<1> HIDE DEF f
<1> QED
  BY <1>2, <1>3, <1>4 DEF q

LEMMA OfRoutes ==
  /\ \A r \in Routes : \E e \in Plain : At(r, e.verbs, e.handler) /\ r.path \in {e.path, Tenants(e.path)}
  /\ ask.rest => \A e \in Plain :
       /\ \E r \in Routes : At(r, e.verbs, e.handler) /\ r.path = e.path
       /\ \E r \in Routes : At(r, e.verbs, e.handler) /\ r.path = Tenants(e.path)
  /\ \E r \in Routes : At(r, {"POST"}, "jsonrpc") /\ r.path = Tenants(JsonRpcRoute.path)
  /\ \E r \in Routes : At(r, {"POST"}, "jsonrpc") /\ r.path = JsonRpcRoute.path
<1>1. Routes \subseteq UNION {Paths(e) : e \in Plain} /\ (ask.rest => Routes = UNION {Paths(e) : e \in Plain})
  BY DEF Routes, JsonRpcRoutes, RestRoutes, Plain
<1>2. Paths(JsonRpcRoute) \subseteq Routes /\ JsonRpcRoute \in Plain
  BY DEF Routes, JsonRpcRoutes, Plain
<1>3. JsonRpcRoute.verbs = {"POST"} /\ JsonRpcRoute.handler = "jsonrpc"
  BY DEF JsonRpcRoute, RouteAt
<1>4. PlainForm(JsonRpcRoute) /\ \A e \in Plain : PlainForm(e)
  BY <1>2, PlainForms
<1>5. \A r \in Routes : \E e \in Plain : At(r, e.verbs, e.handler) /\ r.path \in {e.path, Tenants(e.path)}
  <2> SUFFICES ASSUME NEW r \in Routes PROVE \E e \in Plain : At(r, e.verbs, e.handler) /\ r.path \in {e.path, Tenants(e.path)}
    OBVIOUS
  <2>1. PICK e \in Plain : r \in Paths(e)
    BY <1>1
  <2> QED
    BY <1>4, <2>1, BothPaths
<1>6. ASSUME ask.rest, NEW e \in Plain
      PROVE  /\ \E r \in Routes : At(r, e.verbs, e.handler) /\ r.path = e.path
             /\ \E r \in Routes : At(r, e.verbs, e.handler) /\ r.path = Tenants(e.path)
  <2>1. Paths(e) \subseteq Routes
    BY <1>1, <1>6
  <2> QED
    BY <1>4, <2>1, BothPaths
<1>7. /\ \E r \in Routes : At(r, {"POST"}, "jsonrpc") /\ r.path = Tenants(JsonRpcRoute.path)
      /\ \E r \in Routes : At(r, {"POST"}, "jsonrpc") /\ r.path = JsonRpcRoute.path
  <2>1. /\ \E r \in Paths(JsonRpcRoute) : At(r, {"POST"}, "jsonrpc") /\ r.path = Tenants(JsonRpcRoute.path)
        /\ \E r \in Paths(JsonRpcRoute) : At(r, {"POST"}, "jsonrpc") /\ r.path = JsonRpcRoute.path
    BY <1>3, <1>4, BothPaths
  <2> QED
    BY <1>2, <2>1
<1> QED
  BY <1>5, <1>6, <1>7

\* Where a path of the endpoint has which segments.
PathForm(p) ==
  /\ p \in Seq(Segment) /\ Len(p) \in 0..5
  /\ Len(p) >= 1 => p[1] \in Firsts \union {"*"}
  /\ Len(p) >= 2 => (p[1] = "tasks" /\ p[2] = "*") \/ (p[1] = "*" /\ p[2] \in Firsts)
  /\ Len(p) >= 3 => (p[1] = "tasks" /\ p[3] = Config) \/ (p[1] = "*" /\ p[2] = "tasks" /\ p[3] = "*")
  /\ Len(p) >= 4 => (p[1] = "tasks" /\ p[4] = "*") \/ (p[1] = "*" /\ p[4] = Config)
  /\ Len(p) >= 5 => p[1] = "*" /\ p[5] = "*"

LEMMA PathForms == \A r \in Routes : PathForm(r.path)
<1> SUFFICES ASSUME NEW r \in Routes PROVE PathForm(r.path)
  OBVIOUS
<1>1. PICK e \in Plain : r.path \in {e.path, Tenants(e.path)}
  BY OfRoutes
<1> DEFINE p == e.path
           q == Tenants(p)
<1>2. /\ p \in Seq(Segment) /\ Len(p) \in 0..4
      /\ Len(p) = 1 => p[1] \in Firsts
      /\ Len(p) = 2 => p[1] = "tasks" /\ p[2] = "*"
      /\ Len(p) = 3 => p[1] = "tasks" /\ p[2] = "*" /\ p[3] = Config
      /\ Len(p) = 4 => p[1] = "tasks" /\ p[2] = "*" /\ p[3] = Config /\ p[4] = "*"
  BY PlainForms DEF PlainForm, Single, Firsts
<1>3. /\ q \in Seq(Segment) /\ Len(q) = Len(p) + 1 /\ q[1] = "*"
      /\ \A i \in 1..Len(p) : q[i + 1] = p[i]
  BY <1>2, Longer
<1>4. "tasks" \in Firsts
  BY DEF Firsts
<1> HIDE DEF p, q
<1>5. PathForm(p)
  <2>1. Len(p) \in 0..5 /\ Len(p) \in {0, 1, 2, 3, 4}
    BY <1>2
  <2>2. Len(p) >= 1 => p[1] \in Firsts
    BY <1>2, <1>4, <2>1
  <2>3. Len(p) >= 2 => p[1] = "tasks" /\ p[2] = "*"
    BY <1>2, <2>1
  <2>4. Len(p) >= 3 => p[1] = "tasks" /\ p[3] = Config
    BY <1>2, <2>1
  <2>5. (Len(p) >= 4 => p[1] = "tasks" /\ p[4] = "*") /\ ~(Len(p) >= 5)
    <3> DEFINE n == Len(p)
    <3>0. n \in 0..4
      BY <1>2
    <3> HIDE DEF n
    <3>1. n >= 4 => n = 4
      BY <3>0
    <3>2. ~(n >= 5)
      BY <3>0
    <3> QED
      BY <1>2, <3>1, <3>2 DEF n
  <2> QED
    BY <1>2, <2>1, <2>2, <2>3, <2>4, <2>5 DEF PathForm
<1>6. PathForm(q)
  <2>1. /\ Len(p) >= 1 => q[2] = p[1]
        /\ Len(p) >= 2 => q[3] = p[2]
        /\ Len(p) >= 3 => q[4] = p[3]
        /\ Len(p) >= 4 => q[5] = p[4]
    BY <1>2, <1>3
  <2> QED
    BY <1>2, <1>3, <1>4, <2>1 DEF PathForm
<1> QED
  BY <1>1, <1>5, <1>6 DEF p, q

\* Where a request for an unknown method cannot lead: what a route of one segment asks for, or
\* of two.
Elsewhere(path, goal) ==
  /\ Len(path) = 1 => goal = "jsonrpc" \/ path[1] \notin {"*", "unknown"}
  /\ Len(path) = 2 => goal = "task" \/ path[2] \notin {"*", "unknown"}

LEMMA Routed == \A r \in Routes : Elsewhere(r.path, r.handler)
<1> SUFFICES ASSUME NEW r \in Routes PROVE Elsewhere(r.path, r.handler)
  OBVIOUS
<1>1. PICK e \in Plain : r.handler = e.handler /\ r.path \in {e.path, Tenants(e.path)}
  BY OfRoutes DEF At
<1> DEFINE p == e.path
           q == Tenants(p)
<1>2. /\ p \in Seq(Segment)
      /\ Len(p) = 0 => e.handler = "jsonrpc"
      /\ Len(p) = 1 => p[1] \in Firsts
      /\ Len(p) = 2 => e.handler = "task"
  BY PlainForms DEF PlainForm, Single, OnTask, At, Firsts
<1>3. Len(q) = Len(p) + 1 /\ Len(p) \in Nat /\ \A i \in 1..Len(p) : q[i + 1] = p[i]
  BY <1>2, Longer
<1>4. "*" \notin Firsts /\ "unknown" \notin Firsts
  BY DEF Firsts
<1> HIDE DEF p, q
<1>5. (Len(q) = 1 => Len(p) = 0) /\ (Len(q) = 2 => Len(p) = 1)
  <2> DEFINE n == Len(p)
             m == Len(q)
  <2>1. m = n + 1 /\ n \in Nat
    BY <1>3
  <2> HIDE DEF n, m
  <2>2. (m = 1 => n = 0) /\ (m = 2 => n = 1)
    BY <2>1
  <2> QED
    BY <2>2 DEF n, m
<1>6. Len(p) = 1 => q[2] = p[1]
  BY <1>3
<1> QED
  BY <1>1, <1>2, <1>4, <1>5, <1>6 DEF p, q, Elsewhere

\* No route leads to a method that is unknown.
LEMMA Lost == ask.method = "unknown" => Reached("rest") = "none"
<1> SUFFICES ASSUME ask.method = "unknown" PROVE Reached("rest") = "none"
  OBVIOUS
<1>1. Verb("rest") = "POST" /\ Location(ask.method) = [verb |-> "POST", path |-> <<"unknown">>]
  BY DEF Verb, Location
<1> DEFINE url == Url("rest")
<1>2. /\ DOMAIN url = 1..Len(url)
      /\ \/ Len(url) = 1 /\ url[1] = "unknown"
         \/ Len(url) = 2 /\ url[2] = "unknown"
  <2>1. Location(ask.method).path = <<"unknown">>
    BY <1>1
  <2>2. url = (IF ask.tenant.path = "none" THEN <<>> ELSE <<ask.tenant.path>>) \o <<"unknown">>
    BY <2>1 DEF Url
  <2>3. CASE ask.tenant.path = "none"
    <3>1. <<>> \o <<"unknown">> = <<"unknown">>
      OBVIOUS
    <3> QED
      BY <2>2, <2>3, <3>1
  <2>4. CASE ask.tenant.path # "none"
    <3> DEFINE t == ask.tenant.path
               last == <<"unknown">>
               S == {t, "unknown"}
    <3>1. url = <<t>> \o last
      BY <2>2, <2>4
    <3>2. t \in S /\ last \in Seq(S) /\ Len(last) = 1 /\ last[1] = "unknown"
      OBVIOUS
    <3> HIDE DEF url, t, last, S
    <3>3. /\ DOMAIN url = 1..Len(url) /\ Len(url) = Len(last) + 1
          /\ \A i \in 1..Len(last) : url[i + 1] = last[i]
      BY <3>1, <3>2, Tenanted
    <3>4. Len(url) = 2 /\ url[2] = last[1]
      BY <3>2, <3>3
    <3> QED
      BY <3>2, <3>3, <3>4
  <2> QED
    BY <2>3, <2>4
<1>3. ASSUME NEW r \in Routes, Follows(url, r.path)
      PROVE  IF Len(url) = 1 THEN r.handler = "jsonrpc" ELSE r.handler = "task"
  <2>1. Len(r.path) = Len(url) /\ \A i \in DOMAIN url : r.path[i] = url[i] \/ r.path[i] = "*"
    BY <1>3 DEF Follows
  <2> HIDE DEF url
  <2>2. Elsewhere(r.path, r.handler)
    BY Routed
  <2>3. CASE Len(url) = 1
    <3>1. r.path[1] \in {"*", "unknown"} /\ Len(r.path) = 1
      BY <1>2, <2>1, <2>3
    <3> QED
      BY <2>2, <2>3, <3>1 DEF Elsewhere
  <2>4. CASE Len(url) = 2
    <3>1. r.path[2] \in {"*", "unknown"} /\ Len(r.path) = 2
      BY <1>2, <2>1, <2>4
    <3> QED
      BY <2>2, <2>4, <3>1 DEF Elsewhere
  <2> QED
    BY <1>2, <2>3, <2>4
<1> DEFINE goals == HandlersAt(Verb("rest"), url)
<1>4. goals \subseteq {"jsonrpc"} \/ (goals = {"task"} /\ Len(url) = 2)
  BY <1>2, <1>3 DEF HandlersAt
<1>5. goals = {"task"} => TaskOperation(Verb("rest"), Last(url)) = "none"
  <2>1. Len(url) = 2 => Last(url) = "unknown"
    BY <1>2 DEF Last
  <2>2. goals = {"task"} => Len(url) = 2
    BY <1>4
  <2> HIDE DEF url, goals
  <2> QED
    BY <1>1, <2>1, <2>2 DEF TaskOperation
<1> HIDE DEF url, goals
<1>6. Reached("rest") = CASE goals = {"task"} -> TaskOperation(Verb("rest"), Last(url))
                          [] goals # {"task"} /\ goals \subseteq {"jsonrpc"} -> "none"
                          [] OTHER -> CHOOSE goal \in goals : TRUE
  BY <1>4 DEF Reached, url, goals
<1> QED
  BY <1>4, <1>5, <1>6

LEMMA Faults ==
  /\ DOMAIN JsonRpcFaults = 1..8 /\ DOMAIN RestFaults = 1..3 /\ DOMAIN ContextFaults = 1..4
<1>1. DOMAIN JsonRpcFaults = 1..8
  BY DEF JsonRpcFaults
<1>2. DOMAIN RestFaults = 1..3
  BY DEF RestFaults
<1>3. DOMAIN ContextFaults = 1..4
  BY DEF ContextFaults
<1> QED
  BY <1>1, <1>2, <1>3

LEMMA FaultFree ==
  ASSUME NEW b \in Bindings, Fault(b) = "none"
  PROVE  ask.version = "1.0" /\ ask.method # "unknown"
<1>1. CASE b = "jsonrpc"
  <2>1. FirstFault(JsonRpcFaults) = "none"
    BY <1>1 DEF Fault
  <2>2. ASSUME NEW i \in 1..8 PROVE JsonRpcFaults[i][2] # "none"
    <3>1. /\ JsonRpcFaults[1][2] # "none" /\ JsonRpcFaults[2][2] # "none" /\ JsonRpcFaults[3][2] # "none"
          /\ JsonRpcFaults[4][2] # "none" /\ JsonRpcFaults[5][2] # "none" /\ JsonRpcFaults[6][2] # "none"
          /\ JsonRpcFaults[7][2] # "none" /\ JsonRpcFaults[8][2] # "none"
      BY DEF JsonRpcFaults
    <3> QED
      BY <3>1, Upto6
  <2>3. ~JsonRpcFaults[6][1] /\ ~JsonRpcFaults[7][1]
    BY <2>1, <2>2, Faults, Faultless
  <2> QED
    BY <2>3 DEF JsonRpcFaults
<1>2. CASE b # "jsonrpc"
  <2>1. FirstFault(RestFaults) = "none"
    BY <1>2 DEF Fault
  <2>2. ASSUME NEW i \in 1..3 PROVE RestFaults[i][2] # "none"
    <3>1. RestFaults[1][2] # "none" /\ RestFaults[2][2] # "none" /\ RestFaults[3][2] # "none"
      BY DEF RestFaults, Astray
    <3> QED
      BY <3>1
  <2>3. ~RestFaults[1][1] /\ ~RestFaults[2][1]
    BY <2>1, <2>2, Faults, Faultless
  <2>4. ask.version = "1.0"
    BY <2>3 DEF RestFaults
  <2>5. Reached("rest") # "none"
    BY <2>3 DEF RestFaults
  <2> QED
    BY <2>4, <2>5, Lost
<1> QED
  BY <1>1, <1>2

LEMMA ContextFree ==
  ASSUME FirstFault(ContextFaults) = "none"
  PROVE  ask.required \subseteq ask.requested /\ ContextUser # "nameless"
<1>1. ASSUME NEW i \in 1..4 PROVE ContextFaults[i][2] # "none"
  <2>1. ContextFaults[1][2] # "none" /\ ContextFaults[2][2] # "none" /\ ContextFaults[3][2] # "none" /\ ContextFaults[4][2] # "none"
    BY DEF ContextFaults
  <2> QED
    BY <2>1
<1>2. ~ContextFaults[1][1] /\ ~ContextFaults[4][1]
  BY <1>1, Faults, Faultless
<1> QED
  BY <1>2 DEF ContextFaults

\* What is known of a request to the A2A endpoint.
A2aKnown ==
  /\ phase = [b \in Bindings |-> phase[b]] /\ handled = [b \in Bindings |-> handled[b]]
  /\ \A b \in Bindings : (phase[b] = "building" => Fault(b) = "none") /\ A2aAllowed(b)

LEMMA A2aStarts == Init => A2aKnown
<1>1. ASSUME NEW b \in Bindings, handled[b] = NotHandled PROVE A2aAllowed(b)
  BY <1>1 DEF A2aAllowed
<1>2. CASE A2aInit
  BY <1>1, <1>2 DEF A2aInit, A2aKnown
<1>3. CASE A2aIdle
  BY <1>1, <1>3 DEF A2aIdle, A2aKnown
<1> QED
  BY <1>2, <1>3 DEF Init

\* What is wrong with a request does not change with its progress.
LEMMA FaultKept ==
  ASSUME ask' = ask
  PROVE  (\A c \in Bindings : Fault(c)' = Fault(c)) /\ Replaced' = Replaced
BY DEF Fault, FirstFault, JsonRpcFaults, RestFaults, Astray, Reached, HandlersAt, Routes, Follows, Verb, Url, Unparsed, Replaced

LEMMA A2aGoes ==
  ASSUME A2aKnown, ask' = ask, NEW b \in Bindings, NEW p, phase' = [phase EXCEPT ![b] = p],
         p = "building" => Fault(b) = "none",
         NEW h, handled' = [handled EXCEPT ![b] = h] \/ UNCHANGED handled,
         handled' # handled =>
           /\ ask.version = "1.0" /\ ask.method # "unknown" /\ ask.required \subseteq ask.requested
           /\ h.user # "nameless" /\ (Replaced => h.user = "builder" /\ h.tenant = "builder")
  PROVE  A2aKnown'
<1>1. \A c \in Bindings : Fault(c)' = Fault(c)
  BY FaultKept
<1>2. Replaced' = Replaced
  BY FaultKept
<1>3. phase' = [c \in Bindings |-> phase'[c]] /\ \A c \in Bindings : phase'[c] = IF c = b THEN p ELSE phase[c]
  BY DEF A2aKnown
<1>4. handled' = [c \in Bindings |-> handled'[c]] /\ \A c \in Bindings : handled'[c] = handled[c] \/ (c = b /\ handled'[c] = h)
  BY DEF A2aKnown
<1>5. ASSUME NEW c \in Bindings PROVE (phase[c] = "building" => Fault(c) = "none")' /\ A2aAllowed(c)'
  <2>1. (phase[c] = "building" => Fault(c) = "none")'
    BY <1>1, <1>3 DEF A2aKnown
  <2>2. ASSUME handled'[c] = handled[c] PROVE A2aAllowed(c)'
    <3>1. A2aAllowed(c)
      BY DEF A2aKnown
    <3> QED
      BY <1>2, <2>2, <3>1 DEF A2aAllowed
  <2>3. ASSUME handled'[c] # handled[c] PROVE A2aAllowed(c)'
    <3>1. handled' # handled /\ handled'[c] = h
      BY <1>4, <2>3
    <3>2. /\ ask'.version = "1.0" /\ ask'.method # "unknown" /\ ask'.required \subseteq ask'.requested
          /\ handled'[c].user # "nameless"
          /\ Replaced' => handled'[c].user = "builder" /\ handled'[c].tenant = "builder"
      BY <1>2, <3>1
    <3> QED
      BY <3>2 DEF A2aAllowed
  <2> QED
    BY <2>1, <2>2, <2>3
<1> QED
  BY <1>3, <1>4, <1>5 DEF A2aKnown

LEMMA A2aStep == A2aKnown /\ [Next]_vars => A2aKnown'
<1> SUFFICES ASSUME A2aKnown, [Next]_vars PROVE A2aKnown'
  OBVIOUS
<1>1. CASE UNCHANGED a2aVars
  <2>1. UNCHANGED <<ask, phase, handled>>
    BY <1>1 DEF a2aVars
  <2>2. \A c \in Bindings : Fault(c)' = Fault(c)
    BY <2>1, FaultKept
  <2> QED
    BY <2>1, <2>2 DEF A2aKnown, A2aAllowed, Replaced
<1>2. ASSUME NEW b \in Bindings, Read(b) PROVE A2aKnown'
  <2>1. UNCHANGED ask /\ UNCHANGED handled
    BY <1>2 DEF Read
  <2>2. PICK p \in {"over", "building"} : phase' = [phase EXCEPT ![b] = p] /\ (p = "building" => Fault(b) = "none")
    BY <1>2 DEF Read, Answers
  <2> QED
    BY <2>1, <2>2, A2aGoes
<1>3. ASSUME NEW b \in Bindings, BuildContext(b) PROVE A2aKnown'
  <2>1. UNCHANGED ask /\ phase[b] = "building" /\ Fault(b) = "none"
    BY <1>3 DEF BuildContext, A2aKnown
  <2>2. ask.version = "1.0" /\ ask.method # "unknown"
    BY <2>1, FaultFree
  <2> DEFINE h == [operation |-> Reached(b), tenant |-> IF Replaced THEN "builder" ELSE Tenant(b), user |-> ContextUser]
  <2>3. CASE phase' = [phase EXCEPT ![b] = "handling"] /\ FirstFault(ContextFaults) = "none" /\ handled' = [handled EXCEPT ![b] = h]
    <3>1. ask.required \subseteq ask.requested /\ ContextUser # "nameless"
      BY <2>3, ContextFree
    <3>2. h.user # "nameless" /\ (Replaced => h.user = "builder" /\ h.tenant = "builder")
      BY <3>1 DEF ContextUser
    <3> HIDE DEF h
    <3> QED
      BY <2>1, <2>2, <2>3, <3>1, <3>2, A2aGoes
  <2>4. CASE phase' = [phase EXCEPT ![b] = "over"] /\ UNCHANGED handled
    BY <2>1, <2>4, A2aGoes
  <2> QED
    BY <1>3, <2>3, <2>4 DEF BuildContext, Answers
<1>4. ASSUME NEW b \in Bindings, Handle(b) PROVE A2aKnown'
  <2>1. UNCHANGED ask /\ UNCHANGED handled /\ phase' = [phase EXCEPT ![b] = "over"]
    BY <1>4 DEF Handle, Answers
  <2> QED
    BY <2>1, A2aGoes
<1> QED
  BY <1>1, <1>2, <1>3, <1>4 DEF Next, A2aNext, vars

\* Only a request that passed every check on its way reaches a handler or becomes a task, for
\* every message, its headers and the configuration of the server (mcp/routes.py:466), and
\* the handler of the A2A SDK is called for requests free of faults only (a2a/plugin.py:521).
THEOREM Allowed == Spec => []OnlyAllowed
<1>1. Init => Admission /\ A2aKnown
  BY AdmissionInit, A2aStarts
<1>2. Admission /\ A2aKnown /\ [Next]_vars => Admission' /\ A2aKnown'
  BY AdmissionNext, A2aStep
<1>3. Admission /\ A2aKnown => OnlyAllowed
  <2> SUFFICES ASSUME Admission, A2aKnown PROVE OnlyAllowed
    OBVIOUS
  <2>1. GuardsFirst
    BY DEF Admission, ByPlace
  <2>2. McpAllowed
    <3>1. ran.body > 0 => Admitted /\ Sent
      BY DEF Admission
    <3>2. reply.what = "task" => Admitted
      BY DEF Admission
    <3> QED
      BY <2>1, <3>1, <3>2 DEF McpAllowed, Admitted, Sent
  <2> QED
    BY <2>2 DEF OnlyAllowed, A2aKnown
<1> QED
  BY <1>1, <1>2, <1>3, PTL DEF Spec

\* The hooks and the clean-up balance for the calls that requests make as well.
THEOREM BalanceOfRequests == Spec => []HooksBalanced
<1>1. Admission => HooksBalanced
  BY Nothing DEF Admission, ByPlace, HooksBalanced, CallTypeOK, Runs, Hooked, Observed
<1> QED
  BY <1>1, AdmissionInit, AdmissionNext, PTL DEF Spec

-----------------------------------------------------------------------------
(* One request over both bindings *)

LEMMA Through ==
  ASSUME NEW S, NEW p \in Seq(S), NEW i \in 1..Len(p), NEW s \in S, NEW q \in Seq(S),
         IsPrefix(Append(SubSeq(p, 1, i - 1), s), q)
  PROVE  Len(q) >= i /\ q[i] = s /\ \A j \in 1..(i - 1) : q[j] = p[j]
<1> DEFINE a == Append(SubSeq(p, 1, i - 1), s)
<1>1. a \in Seq(S) /\ Len(a) = i /\ a[i] = s /\ \A j \in 1..(i - 1) : a[j] = p[j]
  <2> DEFINE b == SubSeq(p, 1, i - 1)
  <2>1. b \in Seq(S) /\ Len(b) = i - 1 /\ \A j \in 1..(i - 1) : b[j] = p[j]
    OBVIOUS
  <2> HIDE DEF b
  <2> QED
    BY <2>1 DEF b
<1> HIDE DEF a
<1>2. Len(a) <= Len(q) /\ SubSeq(a, 1, Len(a)) = SubSeq(q, 1, Len(a))
  BY DEF a, IsPrefix
<1>3. \A j \in 1..i : SubSeq(a, 1, i)[j] = a[j] /\ SubSeq(q, 1, i)[j] = q[j]
  BY <1>1, <1>2
<1>4. \A j \in 1..i : a[j] = q[j]
  BY <1>1, <1>2, <1>3
<1> QED
  BY <1>1, <1>2, <1>4

LEMMA Headed ==
  ASSUME NEW S, NEW s \in S, NEW q \in Seq(S)
  PROVE  IsPrefix(<<s>>, q) <=> Len(q) >= 1 /\ q[1] = s
<1>1. <<s>> \in Seq(S) /\ Len(<<s>>) = 1 /\ <<s>>[1] = s
  OBVIOUS
<1>0. ASSUME NEW r \in Seq(S), Len(r) = 1 PROVE r = <<r[1]>>
  <2>0. \A i \in 1..Len(r) : r[i] \in S
    OBVIOUS
  <2>1. r[1] \in S
    <3>1. 1 \in 1..Len(r)
      BY <1>0
    <3> QED
      BY <2>0, <3>1
  <2>2. \A x \in S : <<x>> \in Seq(S) /\ Len(<<x>>) = 1 /\ <<x>>[1] = x
    OBVIOUS
  <2> DEFINE t == <<r[1]>>
  <2>3. t \in Seq(S) /\ Len(t) = 1 /\ t[1] = r[1]
    BY <2>1, <2>2
  <2> HIDE DEF t
  <2>4. r = t
    BY <1>0, <2>3
  <2> QED
    BY <2>4 DEF t
<1>2. SubSeq(<<s>>, 1, 1) = <<s>>
  <2> DEFINE t == <<s>>
  <2>1. t \in Seq(S) /\ Len(t) = 1 /\ t[1] = s
    OBVIOUS
  <2> HIDE DEF t
  <2>2. SubSeq(t, 1, 1) \in Seq(S) /\ Len(SubSeq(t, 1, 1)) = 1 /\ SubSeq(t, 1, 1)[1] = s
    BY <2>1
  <2>3. SubSeq(t, 1, 1) = t
    BY <2>1, <2>2
  <2> QED
    BY <2>3 DEF t
<1>3. Len(q) >= 1 => SubSeq(q, 1, 1) = <<q[1]>>
  <2> SUFFICES ASSUME Len(q) >= 1 PROVE SubSeq(q, 1, 1) = <<q[1]>>
    OBVIOUS
  <2> DEFINE r == SubSeq(q, 1, 1)
  <2>1. r \in Seq(S) /\ Len(r) = 1 /\ r[1] = q[1]
    OBVIOUS
  <2> HIDE DEF r
  <2>2. r = <<q[1]>>
    BY <1>0, <2>1
  <2> QED
    BY <2>2 DEF r
<1>4. IsPrefix(<<s>>, q) <=> 1 <= Len(q) /\ <<s>> = SubSeq(q, 1, 1)
  BY <1>1, <1>2 DEF IsPrefix
<1>5. <<s>> = <<q[1]>> <=> s = q[1]
  OBVIOUS
<1> QED
  BY <1>3, <1>4, <1>5

LEMMA Firstly == ask.rest => \A name \in Firsts : \E t \in Routes : Len(t.path) >= 1 /\ t.path[1] = name
<1> SUFFICES ASSUME ask.rest, NEW name \in Firsts PROVE \E t \in Routes : Len(t.path) >= 1 /\ t.path[1] = name
  OBVIOUS
<1>1. \E verbs, goal : RouteAt(verbs, <<name>>, goal) \in Plain
  BY DEF Plain, RestRoute, Firsts
<1>2. PICK e \in Plain : e.path = <<name>>
  BY <1>1 DEF RouteAt
<1> DEFINE p == <<name>>
<1>3. Len(p) = 1 /\ p[1] = name
  OBVIOUS
<1>4. e.path = p
  BY <1>2
<1> HIDE DEF p
<1>5. \E t \in Routes : t.path = e.path
  BY OfRoutes
<1> QED
  BY <1>3, <1>4, <1>5

\* A URL that has the segments a path asks for.
Matches(url, p) == Len(p) = Len(url) /\ \A i \in 1..Len(url) : p[i] = url[i] \/ p[i] = "*"

\* The way to a route is lost only where another begins with the first segment of the URL.
LEMMA FollowsIs ==
  ASSUME ask.rest, NEW url \in Seq(Segment), \A i \in 1..Len(url) : url[i] # "*", NEW r \in Routes
  PROVE  Follows(url, r.path) <=>
           Matches(url, r.path) /\ (Len(url) >= 1 /\ r.path[1] = "*" => url[1] \notin Firsts)
<1> DEFINE p == r.path
<1>1. PathForm(p)
  BY PathForms
<1>2. DOMAIN url = 1..Len(url) /\ Len(url) \in Nat
  OBVIOUS
<1> HIDE DEF p
<1>3. ASSUME Matches(url, p), Len(url) >= 1 /\ p[1] = "*" => url[1] \notin Firsts PROVE Follows(url, p)
  <2>1. ASSUME NEW i \in 1..Len(url), p[i] # url[i], NEW t \in Routes, IsPrefix(Append(SubSeq(p, 1, i - 1), url[i]), t.path)
        PROVE  FALSE
    <3> DEFINE q == t.path
    <3>1. PathForm(q)
      BY PathForms
    <3> HIDE DEF q
    <3>2. p[i] = "*" /\ Len(p) = Len(url) /\ url[i] # "*" /\ url[i] \in Segment
      BY <1>3, <2>1 DEF Matches
    <3>3. Len(q) >= i /\ q[i] = url[i] /\ \A j \in 1..(i - 1) : q[j] = p[j]
      <4>1. IsPrefix(Append(SubSeq(p, 1, i - 1), url[i]), q) /\ q \in Seq(Segment) /\ p \in Seq(Segment)
        BY <1>1, <2>1, <3>1 DEF q, PathForm
      <4> QED
        BY <3>2, <4>1, Through
    <3>4. i \in 1..5 /\ Len(p) >= i
      BY <1>1, <3>2 DEF PathForm
    <3>5. CASE i = 1
      BY <1>3, <3>1, <3>2, <3>3, <3>4, <3>5 DEF PathForm
    <3>6. CASE i = 2
      <4>1. q[1] = p[1]
        BY <3>3, <3>6
      <4> QED
        BY <1>1, <3>1, <3>2, <3>3, <3>4, <3>6, <4>1 DEF PathForm, Firsts
    <3>7. CASE i = 3
      <4>1. q[1] = p[1] /\ q[2] = p[2]
        BY <3>3, <3>7
      <4> QED
        BY <1>1, <3>1, <3>2, <3>3, <3>4, <3>7, <4>1 DEF PathForm, Firsts, Config
    <3>8. CASE i = 4
      <4>1. q[1] = p[1] /\ q[2] = p[2]
        BY <3>3, <3>8
      <4> QED
        BY <1>1, <3>1, <3>2, <3>3, <3>4, <3>8, <4>1 DEF PathForm, Firsts, Config
    <3>9. CASE i = 5
      <4>1. q[1] = p[1] /\ q[2] = p[2]
        BY <3>3, <3>9
      <4> QED
        BY <1>1, <3>1, <3>2, <3>3, <3>4, <3>9, <4>1 DEF PathForm, Firsts, Config
    <3> QED
      BY <3>4, <3>5, <3>6, <3>7, <3>8, <3>9
  <2> QED
    BY <1>2, <1>3, <2>1 DEF Follows, Matches
<1>4. ASSUME Follows(url, p) PROVE Matches(url, p) /\ (Len(url) >= 1 /\ p[1] = "*" => url[1] \notin Firsts)
  <2>1. Matches(url, p)
    BY <1>2, <1>4 DEF Follows, Matches
  <2>2. ASSUME Len(url) >= 1, p[1] = "*", url[1] \in Firsts PROVE FALSE
    <3>1. PICK t \in Routes : Len(t.path) >= 1 /\ t.path[1] = url[1]
      BY <2>2, Firstly
    <3>2. t.path \in Seq(Segment) /\ url[1] \in Segment
      BY <2>2, PathForms DEF PathForm
    <3>3. IsPrefix(<<url[1]>>, t.path)
      BY <3>1, <3>2, Headed
    <3>4. Append(SubSeq(p, 1, 1 - 1), url[1]) = <<url[1]>>
      <4>1. SubSeq(p, 1, 1 - 1) = <<>>
        <5> DEFINE none == SubSeq(p, 1, 1 - 1)
        <5>1. none \in Seq(Segment) /\ Len(none) = 0
          BY <1>1 DEF PathForm
        <5> HIDE DEF none
        <5>2. none = <<>>
          BY <5>1
        <5> QED
          BY <5>2 DEF none
      <4>2. Append(<<>>, url[1]) = <<url[1]>>
        OBVIOUS
      <4> QED
        BY <4>1, <4>2
    <3>5. p[1] # url[1] /\ 1 \in DOMAIN url
      BY <1>2, <2>2
    <3> QED
      BY <1>4, <3>3, <3>4, <3>5 DEF Follows
  <2> QED
    BY <2>1, <2>2
<1> QED
  BY <1>3, <1>4 DEF p


\* The URL of a location, of the tenant that is asked for.
Under(l) == (IF ask.tenant.path = "none" THEN <<>> ELSE <<ask.tenant.path>>) \o l

\* No route has the name of the tenant.
Apart == ask.tenant.path = "none" \/ ask.tenant.path \notin Firsts \union {"*"}

OfTenant(url) == \E route \in Routes : Follows(url, route.path) /\ IsPrefix(<<"*">>, route.path)

\* What a client of the SDK asks for.
Literal(l) == l \in Seq(Segment) /\ (\A i \in 1..Len(l) : l[i] # "*") /\ (Len(l) >= 1 => l[1] \in Firsts)

LEMMA UnderIs ==
  ASSUME Apart, NEW l, Literal(l)
  PROVE  /\ Under(l) \in Seq(Segment) /\ \A i \in 1..Len(Under(l)) : Under(l)[i] # "*"
         /\ ask.tenant.path = "none" => Under(l) = l
         /\ ask.tenant.path # "none" =>
              /\ Len(Under(l)) = Len(l) + 1 /\ Under(l)[1] = ask.tenant.path /\ Head(Under(l)) = ask.tenant.path
              /\ \A i \in 1..Len(l) : Under(l)[i + 1] = l[i]
<1> DEFINE t == ask.tenant.path
           u == <<t>> \o l
<1>1. l \in Seq(Segment) /\ Len(l) \in Nat
  BY DEF Literal
<1>2. /\ u \in Seq(Segment) /\ DOMAIN u = 1..Len(u) /\ Len(u) = Len(l) + 1 /\ u[1] = t
      /\ \A i \in 1..Len(l) : u[i + 1] = l[i]
  BY <1>1, Literals, Tenanted
<1>3. <<>> \o l = l
  BY <1>1
<1>4. Under(l) = IF t = "none" THEN l ELSE u
  BY <1>3 DEF Under
<1>5. CASE t = "none"
  BY <1>1, <1>4, <1>5 DEF Literal
<1>6. CASE t # "none"
  <2>1. Under(l) = u /\ t # "*"
    BY <1>4, <1>6 DEF Apart
  <2> HIDE DEF u
  <2>2. Head(u) = t
    BY <1>2, <1>1
  <2>3. ASSUME NEW i \in 1..Len(u) PROVE u[i] # "*"
    <3>1. i = 1 \/ i - 1 \in 1..Len(l)
      BY <1>1, <1>2
    <3>2. CASE i = 1
      BY <1>2, <2>1, <3>2
    <3>3. CASE i - 1 \in 1..Len(l)
      <4>1. PICK j \in 1..Len(l) : i = j + 1
        BY <3>3
      <4>2. u[j + 1] = l[j] /\ l[j] # "*"
        BY <1>2 DEF Literal
      <4> QED
        BY <4>1, <4>2
    <3> QED
      BY <3>1, <3>2, <3>3
  <2> QED
    BY <1>2, <1>6, <2>1, <2>2, <2>3
<1> QED
  BY <1>5, <1>6

LEMMA MatchesUnder ==
  ASSUME Apart, ask.tenant.path # "none", NEW l, Literal(l), NEW p \in Seq(Segment)
  PROVE  Matches(Under(l), Tenants(p)) <=> Matches(l, p)
<1> DEFINE u == Under(l)
           q == Tenants(p)
<1>1. Len(u) = Len(l) + 1 /\ u[1] = ask.tenant.path /\ (\A i \in 1..Len(l) : u[i + 1] = l[i]) /\ Len(l) \in Nat
  BY UnderIs DEF Literal
<1>2. Len(q) = Len(p) + 1 /\ q[1] = "*" /\ (\A i \in 1..Len(p) : q[i + 1] = p[i]) /\ Len(p) \in Nat
  BY Longer
<1> HIDE DEF u, q
<1>3. ASSUME Matches(u, q) PROVE Matches(l, p)
  <2>1. Len(p) = Len(l)
    BY <1>1, <1>2, <1>3 DEF Matches
  <2>2. ASSUME NEW i \in 1..Len(l) PROVE p[i] = l[i] \/ p[i] = "*"
    <3>1. i + 1 \in 1..Len(u)
      BY <1>1
    <3>2. q[i + 1] = u[i + 1] \/ q[i + 1] = "*"
      BY <1>3, <3>1 DEF Matches
    <3> QED
      BY <1>1, <1>2, <2>1, <3>2
  <2> QED
    BY <2>1, <2>2 DEF Matches
<1>4. ASSUME Matches(l, p) PROVE Matches(u, q)
  <2>1. Len(p) = Len(l) /\ Len(q) = Len(u)
    BY <1>1, <1>2, <1>4 DEF Matches
  <2>2. ASSUME NEW i \in 1..Len(u) PROVE q[i] = u[i] \/ q[i] = "*"
    <3>1. i = 1 \/ i - 1 \in 1..Len(l)
      BY <1>1
    <3>2. CASE i - 1 \in 1..Len(l)
      <4>1. p[i - 1] = l[i - 1] \/ p[i - 1] = "*"
        BY <1>4, <3>2 DEF Matches
      <4>2. q[(i - 1) + 1] = p[i - 1] /\ u[(i - 1) + 1] = l[i - 1] /\ (i - 1) + 1 = i
        BY <1>1, <1>2, <2>1, <3>2
      <4> QED
        BY <4>1, <4>2
    <3> QED
      BY <1>2, <3>1, <3>2
  <2> QED
    BY <2>1, <2>2 DEF Matches
<1> QED
  BY <1>3, <1>4 DEF u, q

\* A route that matches leads to its handler, with the tenant and without.
LEMMA Led ==
  ASSUME ask.rest, Apart, NEW l, Literal(l), NEW e \in Plain, NEW verb \in e.verbs, Matches(l, e.path)
  PROVE  e.handler \in HandlersAt(verb, Under(l)) /\ (OfTenant(Under(l)) <=> ask.tenant.path # "none")
<1> DEFINE u == Under(l)
<1>1. u \in Seq(Segment) /\ \A i \in 1..Len(u) : u[i] # "*"
  BY UnderIs
<1>2. e.path \in Seq(Segment)
  BY PlainForms DEF PlainForm
<1>3. Len(e.path) = Len(l) /\ Len(l) \in Nat
  BY DEF Matches, Literal
<1>4. CASE ask.tenant.path = "none"
  <2>1. u = l
    BY <1>4, UnderIs
  <2>2. PICK r \in Routes : At(r, e.verbs, e.handler) /\ r.path = e.path
    BY OfRoutes
  <2>3. Len(l) >= 1 => e.path[1] # "*"
    <3>1. ASSUME Len(l) >= 1, e.path[1] = "*" PROVE FALSE
      <4>1. PlainForm(e)
        BY PlainForms
      <4>2. Len(e.path) \in {1, 2, 3, 4}
        BY <1>3, <3>1, <4>1 DEF PlainForm
      <4> QED
        BY <3>1, <4>1, <4>2 DEF PlainForm, Single
    <3> QED
      BY <3>1
  <2> HIDE DEF u
  <2>4. Follows(u, r.path)
    BY <1>1, <2>1, <2>2, <2>3, FollowsIs
  <2>5. e.handler \in HandlersAt(verb, u)
    BY <2>2, <2>4 DEF HandlersAt, At
  <2>6. ASSUME NEW t \in Routes, Follows(u, t.path), IsPrefix(<<"*">>, t.path) PROVE FALSE
    <3>1. t.path \in Seq(Segment)
      BY PathForms DEF PathForm
    <3>2. Len(t.path) >= 1 /\ t.path[1] = "*"
      BY <2>6, <3>1, Literals, Headed
    <3>3. Len(u) = Len(t.path) /\ (Len(u) >= 1 => u[1] \notin Firsts)
      BY <1>1, <2>6, <3>2, FollowsIs DEF Matches
    <3> QED
      BY <2>1, <3>2, <3>3 DEF Literal
  <2> QED
    BY <1>4, <2>5, <2>6 DEF OfTenant, u
<1>5. CASE ask.tenant.path # "none"
  <2>1. PICK r \in Routes : At(r, e.verbs, e.handler) /\ r.path = Tenants(e.path)
    BY OfRoutes
  <2>2. Matches(u, r.path) /\ r.path \in Seq(Segment) /\ Len(r.path) >= 1 /\ r.path[1] = "*"
    <3>1. Len(Tenants(e.path)) >= 1
      BY <1>2, <1>3, Longer
    <3> QED
      BY <1>2, <1>5, <2>1, <3>1, Longer, MatchesUnder
  <2>3. u[1] \notin Firsts
    BY <1>5, UnderIs DEF Apart
  <2> HIDE DEF u
  <2>4. Follows(u, r.path)
    BY <1>1, <2>2, <2>3, FollowsIs
  <2>5. IsPrefix(<<"*">>, r.path)
    BY <2>2, Literals, Headed
  <2> QED
    BY <1>5, <2>1, <2>4, <2>5 DEF OfTenant, HandlersAt, At, u
<1> QED
  BY <1>4, <1>5

\* And no other does.
LEMMA OnlyLed ==
  ASSUME ask.rest, Apart, NEW l, Literal(l), Len(l) >= 1, NEW verb, NEW goal \in HandlersAt(verb, Under(l))
  PROVE  \E e \in Plain : verb \in e.verbs /\ e.handler = goal /\ Matches(l, e.path)
<1> DEFINE u == Under(l)
<1>1. PICK r \in Routes : verb \in r.verbs /\ Follows(u, r.path) /\ goal = r.handler
  BY DEF HandlersAt
<1>2. u \in Seq(Segment) /\ \A i \in 1..Len(u) : u[i] # "*"
  BY UnderIs
<1>3. PICK e \in Plain : At(r, e.verbs, e.handler) /\ r.path \in {e.path, Tenants(e.path)}
  BY OfRoutes
<1>4. e.path \in Seq(Segment) /\ PathForm(r.path) /\ PlainForm(e)
  BY PlainForms, PathForms DEF PlainForm
<1>5. verb \in e.verbs /\ e.handler = goal
  BY <1>1, <1>3 DEF At
<1>6. Len(l) \in Nat
  BY DEF Literal
<1>7. CASE ask.tenant.path = "none"
  <2>1. u = l
    BY <1>7, UnderIs
  <2> HIDE DEF u
  <2>2. Matches(l, r.path) /\ r.path[1] # "*"
    BY <1>1, <1>2, <2>1, FollowsIs DEF Literal
  <2>3. r.path = e.path
    BY <1>3, <1>4, <2>2, Longer
  <2> QED
    BY <1>5, <2>2, <2>3
<1>8. CASE ask.tenant.path # "none"
  <2>1. Len(u) = Len(l) + 1 /\ u[1] = ask.tenant.path /\ u[1] \notin Firsts
    BY <1>8, UnderIs DEF Apart
  <2>u. \A p \in Seq(Segment) : Matches(u, Tenants(p)) <=> Matches(l, p)
    BY <1>8, MatchesUnder
  <2> HIDE DEF u
  <2>2. Matches(u, r.path)
    BY <1>1, <1>2, FollowsIs
  <2>3. Len(r.path) >= 1 /\ r.path[1] = "*"
    <3>1. Len(r.path) = Len(u) /\ Len(u) >= 1 /\ 1 \in 1..Len(u)
      BY <1>6, <2>1, <2>2 DEF Matches
    <3>2. r.path[1] = u[1] \/ r.path[1] = "*"
      BY <2>2, <3>1 DEF Matches
    <3>3. r.path[1] \in Firsts \union {"*"}
      BY <1>4, <3>1 DEF PathForm
    <3> QED
      BY <2>1, <3>1, <3>2, <3>3
  <2>4. r.path = Tenants(e.path)
    <3>1. ASSUME r.path = e.path PROVE FALSE
      <4>1. Len(e.path) \in {1, 2, 3, 4}
        BY <1>4, <2>3, <3>1 DEF PlainForm
      <4> QED
        BY <1>4, <2>3, <3>1, <4>1 DEF PlainForm, Single
    <3> QED
      BY <1>3, <3>1
  <2> QED
    BY <1>4, <1>5, <2>u, <2>2, <2>4
<1> QED
  BY <1>7, <1>8


\* Where the client of the SDK finds an operation.
Located(l, verb, method) ==
  /\ Literal(l) /\ Len(l) \in 1..4
  /\ Len(l) = 1 =>
       \/ l[1] = "message:send" /\ verb = "POST" /\ method = "SendMessage"
       \/ l[1] = "message:stream" /\ verb = "POST" /\ method = "SendStreamingMessage"
       \/ l[1] = "tasks" /\ verb = "GET" /\ method = "ListTasks"
       \/ l[1] = "extendedAgentCard" /\ verb = "GET" /\ method = "GetExtendedAgentCard"
  /\ Len(l) = 2 => l[1] = "tasks" /\ verb \in {"GET", "POST"} /\ method = TaskOperation(verb, l[2])
  /\ Len(l) = 3 =>
       /\ l[1] = "tasks" /\ l[3] = Config
       /\ \/ verb = "POST" /\ method = "CreateTaskPushNotificationConfig"
          \/ verb = "GET" /\ method = "ListTaskPushNotificationConfigs"
  /\ Len(l) = 4 =>
       /\ l[1] = "tasks" /\ l[3] = Config
       /\ \/ verb = "GET" /\ method = "GetTaskPushNotificationConfig"
          \/ verb = "DELETE" /\ method = "DeleteTaskPushNotificationConfig"

LEMMA Literal1 ==
  ASSUME NEW a \in Firsts
  PROVE  Literal(<<a>>) /\ Len(<<a>>) = 1 /\ <<a>>[1] = a
<1> DEFINE l == <<a>>
<1>1. a \in Segment /\ a # "*"
  BY Literals DEF Firsts
<1>2. l \in Seq(Segment) /\ Len(l) = 1 /\ l[1] = a
  BY <1>1
<1> HIDE DEF l
<1>3. Literal(l)
  BY <1>1, <1>2 DEF Literal
<1> QED
  BY <1>2, <1>3 DEF l

LEMMA Literal2 ==
  ASSUME NEW a \in Firsts, NEW b \in Segment, b # "*"
  PROVE  Literal(<<a, b>>) /\ Len(<<a, b>>) = 2 /\ <<a, b>>[1] = a /\ <<a, b>>[2] = b
<1> DEFINE l == <<a, b>>
<1>1. a \in Segment /\ a # "*"
  BY Literals DEF Firsts
<1>2. l \in Seq(Segment) /\ Len(l) = 2 /\ l[1] = a /\ l[2] = b
  BY <1>1
<1> HIDE DEF l
<1>3. \A i \in 1..Len(l) : i \in {1, 2}
  BY <1>2
<1>4. Literal(l)
  BY <1>1, <1>2, <1>3 DEF Literal
<1> QED
  BY <1>2, <1>4 DEF l

LEMMA Literal3 ==
  ASSUME NEW a \in Firsts, NEW b \in Segment, NEW c \in Segment, b # "*", c # "*"
  PROVE  Literal(<<a, b, c>>) /\ Len(<<a, b, c>>) = 3 /\ <<a, b, c>>[1] = a /\ <<a, b, c>>[3] = c
<1> DEFINE l == <<a, b, c>>
<1>1. a \in Segment /\ a # "*"
  BY Literals DEF Firsts
<1>2. l \in Seq(Segment) /\ Len(l) = 3 /\ l[1] = a /\ l[2] = b /\ l[3] = c
  BY <1>1
<1> HIDE DEF l
<1>3. \A i \in 1..Len(l) : i \in {1, 2, 3}
  BY <1>2
<1>4. Literal(l)
  BY <1>1, <1>2, <1>3 DEF Literal
<1> QED
  BY <1>2, <1>4 DEF l

LEMMA Literal4 ==
  ASSUME NEW a \in Firsts, NEW b \in Segment, NEW c \in Segment, NEW d \in Segment, b # "*", c # "*", d # "*"
  PROVE  Literal(<<a, b, c, d>>) /\ Len(<<a, b, c, d>>) = 4 /\ <<a, b, c, d>>[1] = a /\ <<a, b, c, d>>[3] = c
<1> DEFINE l == <<a, b, c, d>>
<1>1. a \in Segment /\ a # "*"
  BY Literals DEF Firsts
<1>2. l \in Seq(Segment) /\ Len(l) = 4 /\ l[1] = a /\ l[2] = b /\ l[3] = c /\ l[4] = d
  BY <1>1
<1> HIDE DEF l
<1>3. \A i \in 1..Len(l) : i \in {1, 2, 3, 4}
  BY <1>2
<1>4. Literal(l)
  BY <1>1, <1>2, <1>3 DEF Literal
<1> QED
  BY <1>2, <1>4 DEF l

LEMMA Locations == \A method \in Operations : Located(Location(method).path, Location(method).verb, method)
<1> SUFFICES ASSUME NEW method \in Operations PROVE Located(Location(method).path, Location(method).verb, method)
  OBVIOUS
<1> DEFINE l == Location(method).path
           verb == Location(method).verb
<1> DEFINE One(a) ==
          /\ l = <<a>>
          /\ \/ a = "message:send" /\ verb = "POST" /\ method = "SendMessage"
             \/ a = "message:stream" /\ verb = "POST" /\ method = "SendStreamingMessage"
             \/ a = "tasks" /\ verb = "GET" /\ method = "ListTasks"
             \/ a = "extendedAgentCard" /\ verb = "GET" /\ method = "GetExtendedAgentCard"
           Two(b) == l = <<"tasks", b>> /\ verb \in {"GET", "POST"} /\ method = TaskOperation(verb, b)
<1>1. ASSUME NEW a \in Firsts, One(a)
      PROVE  Located(l, verb, method)
  <2>1. Literal(l) /\ Len(l) = 1 /\ l[1] = a
    BY <1>1, Literal1
  <2> HIDE DEF l, verb
  <2> QED
    BY <1>1, <2>1 DEF Located
<1>2. ASSUME NEW b \in Segment, b # "*", Two(b)
      PROVE  Located(l, verb, method)
  <2>1. Literal(l) /\ Len(l) = 2 /\ l[1] = "tasks" /\ l[2] = b
    BY <1>2, Literal2 DEF Firsts
  <2> HIDE DEF l, verb
  <2> QED
    BY <1>2, <2>1 DEF Located
<1>3. ASSUME l = <<"tasks", "id", Config>>,
             \/ verb = "POST" /\ method = "CreateTaskPushNotificationConfig"
             \/ verb = "GET" /\ method = "ListTaskPushNotificationConfigs"
      PROVE  Located(l, verb, method)
  <2>1. Literal(l) /\ Len(l) = 3 /\ l[1] = "tasks" /\ l[3] = Config
    <3>1. "tasks" \in Firsts /\ "id" \in Segment /\ Config \in Segment /\ "id" # "*" /\ Config # "*"
      BY Literals DEF Firsts, Config
    <3> QED
      BY <1>3, <3>1, Literal3
  <2> HIDE DEF l, verb
  <2> QED
    BY <1>3, <2>1 DEF Located
<1>4. ASSUME l = <<"tasks", "id", Config, "push">>,
             \/ verb = "GET" /\ method = "GetTaskPushNotificationConfig"
             \/ verb = "DELETE" /\ method = "DeleteTaskPushNotificationConfig"
      PROVE  Located(l, verb, method)
  <2>1. Literal(l) /\ Len(l) = 4 /\ l[1] = "tasks" /\ l[3] = Config
    <3>1. /\ "tasks" \in Firsts /\ "id" \in Segment /\ Config \in Segment /\ "push" \in Segment
          /\ "id" # "*" /\ Config # "*" /\ "push" # "*"
      BY Literals DEF Firsts, Config
    <3> QED
      BY <1>4, <3>1, Literal4
  <2> HIDE DEF l, verb
  <2> QED
    BY <1>4, <2>1 DEF Located
<1>5. CASE method \in {"SendMessage", "SendStreamingMessage", "ListTasks", "GetExtendedAgentCard"}
  <2>1. \E a \in Firsts : One(a)
    BY <1>5 DEF Location, Firsts
  <2> HIDE DEF One
  <2> QED
    BY <1>1, <2>1
<1>6. CASE method \in {"SubscribeToTask", "GetTask", "CancelTask"}
  <2>1. \E b \in {"id", "id:subscribe", "id:cancel"} : Two(b)
    BY <1>6 DEF Location, TaskOperation
  <2>2. \A b \in {"id", "id:subscribe", "id:cancel"} : b \in Segment /\ b # "*"
    BY Literals
  <2> HIDE DEF Two
  <2> QED
    BY <1>2, <2>1, <2>2
<1>7. CASE method \in {"CreateTaskPushNotificationConfig", "ListTaskPushNotificationConfigs"}
  BY <1>3, <1>7 DEF Location, Config
<1>8. CASE method \in {"GetTaskPushNotificationConfig", "DeleteTaskPushNotificationConfig"}
  BY <1>4, <1>8 DEF Location, Config
<1> QED
  BY <1>5, <1>6, <1>7, <1>8 DEF Operations

\* There is a route for each.
LEMMA Entered ==
  /\ \A a \in Firsts : \E e \in Plain : Len(e.path) = 1 /\ e.path[1] = a
  /\ \E e \in Plain : Len(e.path) = 2
  /\ \E e \in Plain : Len(e.path) = 3 /\ At(e, {"POST"}, "CreateTaskPushNotificationConfig")
  /\ \E e \in Plain : Len(e.path) = 3 /\ At(e, {"GET"}, "ListTaskPushNotificationConfigs")
  /\ \E e \in Plain : Len(e.path) = 4 /\ At(e, {"GET"}, "GetTaskPushNotificationConfig")
  /\ \E e \in Plain : Len(e.path) = 4 /\ At(e, {"DELETE"}, "DeleteTaskPushNotificationConfig")
<1>1. \A a, b, c, d : Len(<<a>>) = 1 /\ <<a>>[1] = a /\ Len(<<a, b>>) = 2 /\ Len(<<a, b, c>>) = 3 /\ Len(<<a, b, c, d>>) = 4
  OBVIOUS
<1>2. \A a \in Firsts : \E e \in Plain : Len(e.path) = 1 /\ e.path[1] = a
  <2> SUFFICES ASSUME NEW a \in Firsts PROVE \E e \in Plain : Len(e.path) = 1 /\ e.path[1] = a
    OBVIOUS
  <2>1. \E verbs, goal : RouteAt(verbs, <<a>>, goal) \in Plain
    BY DEF Plain, RestRoute, Firsts
  <2>2. PICK e \in Plain : e.path = <<a>>
    BY <2>1 DEF RouteAt
  <2> QED
    BY <1>1, <2>2
<1>3. ASSUME NEW verbs, NEW path, NEW goal, RouteAt(verbs, path, goal) \in RestRoute
      PROVE  \E e \in Plain : e.path = path /\ At(e, verbs, goal)
  BY <1>3 DEF Plain, RouteAt, At
<1>4. /\ RouteAt({"GET", "POST"}, <<"tasks", "*">>, "task") \in RestRoute
      /\ RouteAt({"POST"}, <<"tasks", "*", Config>>, "CreateTaskPushNotificationConfig") \in RestRoute
      /\ RouteAt({"GET"}, <<"tasks", "*", Config>>, "ListTaskPushNotificationConfigs") \in RestRoute
      /\ RouteAt({"GET"}, <<"tasks", "*", Config, "*">>, "GetTaskPushNotificationConfig") \in RestRoute
      /\ RouteAt({"DELETE"}, <<"tasks", "*", Config, "*">>, "DeleteTaskPushNotificationConfig") \in RestRoute
  BY DEF RestRoute, Config
<1> QED
  BY <1>1, <1>2, <1>3, <1>4

GoalOf(l, method) == IF Len(l) = 2 THEN "task" ELSE method

LEMMA Goal ==
  ASSUME NEW l, NEW verb, NEW method, Located(l, verb, method)
  PROVE  /\ \E e \in Plain : verb \in e.verbs /\ Matches(l, e.path) /\ e.handler = GoalOf(l, method)
         /\ \A e \in Plain : verb \in e.verbs /\ Matches(l, e.path) => e.handler = GoalOf(l, method)
<1>1. Len(l) \in {1, 2, 3, 4}
  BY DEF Located
<1>2. ASSUME NEW e \in Plain, verb \in e.verbs, Matches(l, e.path) PROVE e.handler = GoalOf(l, method)
  <2>1. PlainForm(e) /\ Len(e.path) = Len(l) /\ \A i \in 1..Len(l) : e.path[i] = l[i] \/ e.path[i] = "*"
    BY <1>2, PlainForms DEF Matches
  <2>2. CASE Len(l) = 1
    <3>1. Single(e.path[1], e) /\ e.path[1] = l[1]
      <4>1. Single(e.path[1], e) /\ 1 \in 1..Len(l)
        BY <2>1, <2>2 DEF PlainForm
      <4> QED
        BY <2>1, <4>1 DEF Single
    <3> QED
      BY <1>2, <2>2, <3>1 DEF Located, Single, At, GoalOf
  <2>3. CASE Len(l) = 2
    BY <2>1, <2>3 DEF PlainForm, OnTask, At, GoalOf
  <2>4. CASE Len(l) = 3
    BY <1>2, <2>1, <2>4 DEF PlainForm, Located, OnConfigs, At, GoalOf
  <2>5. CASE Len(l) = 4
    BY <1>2, <2>1, <2>5 DEF PlainForm, Located, OnConfig, At, GoalOf
  <2> QED
    BY <1>1, <2>2, <2>3, <2>4, <2>5
<1>3. \E e \in Plain : verb \in e.verbs /\ Matches(l, e.path)
  <2>1. CASE Len(l) = 1
    <3>1. l[1] \in Firsts
      BY <2>1 DEF Located, Firsts
    <3>2. PICK e \in Plain : Len(e.path) = 1 /\ e.path[1] = l[1]
      BY <3>1, Entered
    <3>3. Single(l[1], e)
      BY <3>2, PlainForms DEF PlainForm
    <3>4. verb \in e.verbs
      BY <2>1, <3>3 DEF Located, Single, At
    <3>5. Matches(l, e.path)
      BY <2>1, <3>2 DEF Matches
    <3> QED
      BY <3>4, <3>5
  <2>2. CASE Len(l) = 2
    <3>1. PICK e \in Plain : Len(e.path) = 2
      BY Entered
    <3>2. e.path[1] = "tasks" /\ e.path[2] = "*" /\ OnTask(e)
      BY <3>1, PlainForms DEF PlainForm
    <3>3. l[1] = "tasks" /\ verb \in e.verbs
      BY <2>2, <3>2 DEF Located, OnTask, At
    <3>4. \A i \in 1..2 : i = 1 \/ i = 2
      OBVIOUS
    <3> QED
      BY <2>2, <3>1, <3>2, <3>3, <3>4 DEF Matches
  <2>3. CASE Len(l) = 3
    <3>1. PICK e \in Plain : Len(e.path) = 3 /\ verb \in e.verbs
      BY <2>3, Entered DEF Located, At
    <3>2. e.path[1] = "tasks" /\ e.path[2] = "*" /\ e.path[3] = Config
      BY <3>1, PlainForms DEF PlainForm
    <3>3. l[1] = "tasks" /\ l[3] = Config
      BY <2>3 DEF Located
    <3>4. \A i \in 1..3 : i = 1 \/ i = 2 \/ i = 3
      OBVIOUS
    <3> QED
      BY <2>3, <3>1, <3>2, <3>3, <3>4 DEF Matches
  <2>4. CASE Len(l) = 4
    <3>1. PICK e \in Plain : Len(e.path) = 4 /\ verb \in e.verbs
      BY <2>4, Entered DEF Located, At
    <3>2. e.path[1] = "tasks" /\ e.path[2] = "*" /\ e.path[3] = Config /\ e.path[4] = "*"
      BY <3>1, PlainForms DEF PlainForm
    <3>3. l[1] = "tasks" /\ l[3] = Config
      BY <2>4 DEF Located
    <3>4. \A i \in 1..4 : i = 1 \/ i = 2 \/ i = 3 \/ i = 4
      OBVIOUS
    <3> QED
      BY <2>4, <3>1, <3>2, <3>3, <3>4 DEF Matches
  <2> QED
    BY <1>1, <2>1, <2>2, <2>3, <2>4
<1> QED
  BY <1>2, <1>3


\* Wherever the tenant is told, both bindings come to the operation that was asked for.
LEMMA Reaches ==
  ASSUME ask.rest, Apart, ask.method \in Operations
  PROVE  /\ Reached("rest") = ask.method /\ Reached("jsonrpc") = ask.method
         /\ HandlersAt("POST", Url("jsonrpc")) # {}
         /\ \A b \in Bindings : OfTenant(Url(b)) <=> ask.tenant.path # "none"
         /\ ask.tenant.path # "none" => \A b \in Bindings : Head(Url(b)) = ask.tenant.path
<1> DEFINE l == Location(ask.method).path
           verb == Location(ask.method).verb
           goals == HandlersAt(verb, Under(l))
           goal == GoalOf(l, ask.method)
<1>1. Located(l, verb, ask.method)
  BY Locations
<1>2. Url("rest") = Under(l) /\ Verb("rest") = verb /\ Url("jsonrpc") = Under(<<>>) /\ Verb("jsonrpc") = "POST"
  BY DEF Url, Under, Verb
<1> HIDE DEF l, verb
<1>3. Literal(l) /\ Len(l) >= 1 /\ Len(l) \in Nat
  BY <1>1 DEF Located
<1>4. PICK e \in Plain : verb \in e.verbs /\ Matches(l, e.path) /\ e.handler = goal
  BY <1>1, Goal
<1>5. goal \in goals /\ (OfTenant(Under(l)) <=> ask.tenant.path # "none")
  BY <1>3, <1>4, Led
<1>6. \A g \in goals : g = goal
  BY <1>1, <1>3, OnlyLed, Goal
<1>7. goals = {goal}
  BY <1>5, <1>6
<1>8. Reached("rest") = ask.method
  <2> DEFINE u == Under(l)
  <2>1. Len(l) = 2 => Last(u) = l[2]
    <3>1. CASE ask.tenant.path = "none"
      <4>1. u = l
        BY <1>3, <3>1, UnderIs
      <4> QED
        BY <4>1 DEF Last
    <3>2. CASE ask.tenant.path # "none"
      <4>1. Len(u) = Len(l) + 1 /\ \A i \in 1..Len(l) : u[i + 1] = l[i]
        BY <1>3, <3>2, UnderIs
      <4> HIDE DEF u
      <4>2. Len(l) = 2 => Len(u) = 3 /\ u[3] = l[2]
        BY <4>1
      <4> QED
        BY <4>2 DEF Last
    <3> QED
      BY <3>1, <3>2
  <2>2. Len(l) = 2 => ask.method = TaskOperation(verb, l[2])
    BY <1>1 DEF Located
  <2>3. /\ goals = {"task"} => Reached("rest") = TaskOperation(verb, Last(u))
        /\ ~(goals \subseteq {"jsonrpc"}) /\ goals # {"task"} => Reached("rest") = CHOOSE g \in goals : TRUE
    <3>1. HandlersAt(Verb("rest"), Url("rest")) = goals /\ Url("rest") = u
      BY <1>2
    <3> HIDE DEF goals, u
    <3>2. CASE goals = {"task"}
      <4>1. ~(goals \subseteq {"jsonrpc"})
        BY <3>2
      <4> QED
        BY <1>2, <3>1, <3>2, <4>1 DEF Reached
    <3>3. CASE goals # {"task"} /\ ~(goals \subseteq {"jsonrpc"})
      BY <3>1, <3>3 DEF Reached
    <3> QED
      BY <3>2, <3>3
  <2>4. ask.method \notin {"task", "jsonrpc"}
    BY DEF Operations
  <2> HIDE DEF goals, u
  <2>5. CASE Len(l) = 2
    <3>1. goal = "task"
      BY <2>5 DEF GoalOf
    <3> QED
      BY <1>7, <2>1, <2>2, <2>3, <2>5, <3>1
  <2>6. CASE Len(l) # 2
    <3>1. goals = {ask.method}
      BY <1>7, <2>6 DEF GoalOf
    <3>2. (CHOOSE g \in {ask.method} : TRUE) = ask.method
      OBVIOUS
    <3>3. ~(goals \subseteq {"jsonrpc"}) /\ goals # {"task"}
      BY <2>4, <3>1
    <3> QED
      BY <2>3, <3>1, <3>2, <3>3
  <2> QED
    BY <2>5, <2>6
<1>9. "jsonrpc" \in HandlersAt("POST", Under(<<>>)) /\ (OfTenant(Under(<<>>)) <=> ask.tenant.path # "none") /\ Literal(<<>>)
  <2>1. JsonRpcRoute \in Plain /\ "POST" \in JsonRpcRoute.verbs /\ JsonRpcRoute.path = <<>> /\ JsonRpcRoute.handler = "jsonrpc"
    BY DEF Plain, JsonRpcRoute, RouteAt
  <2>2. Literal(<<>>) /\ Matches(<<>>, <<>>)
    BY DEF Literal, Matches
  <2> QED
    BY <2>1, <2>2, Led
<1>10. Reached("jsonrpc") = ask.method
  BY <1>2, <1>9 DEF Reached
<1>11. ask.tenant.path # "none" => Head(Under(l)) = ask.tenant.path /\ Head(Under(<<>>)) = ask.tenant.path
  BY <1>3, <1>9, UnderIs
<1> QED
  BY <1>2, <1>5, <1>8, <1>9, <1>10, <1>11 DEF Bindings

\* A request that BindingsAgree speaks of.
Comparable ==
  /\ ask \in Asks
  /\ ask.id = "given" /\ ask.body = "object" /\ ask.jsonrpc /\ ask.params # "extra" /\ ask.rest
  /\ \A route \in RestRoutes : route.path[1] # ask.tenant.path
  /\ ask.method \in Bare => ask.tenant.param = "none" /\ ask.params = "ok"

LEMMA SetApart == Comparable => Apart
<1> SUFFICES ASSUME Comparable PROVE ask.tenant.path \notin Firsts \union {"*"}
  BY DEF Apart
<1>1. ASSUME NEW e \in RestRoute PROVE e.path[1] # ask.tenant.path /\ ask.tenant.path # "*"
  <2>1. PlainForm(e) /\ Paths(e) \subseteq RestRoutes
    BY PlainForms DEF Plain, RestRoutes
  <2>2. e.path[1] # ask.tenant.path /\ Tenants(e.path)[1] # ask.tenant.path
    BY <2>1, BothPaths DEF Comparable
  <2> QED
    BY <2>1, <2>2, Longer DEF PlainForm
<1>2. ASSUME NEW name \in Firsts PROVE \E e \in RestRoute : e.path[1] = name
  <2>1. \E verbs, goal : RouteAt(verbs, <<name>>, goal) \in RestRoute
    BY DEF RestRoute, Firsts
  <2>2. <<name>>[1] = name
    OBVIOUS
  <2> QED
    BY <2>1, <2>2 DEF RouteAt
<1>3. "tasks" \in Firsts
  BY DEF Firsts
<1> QED
  BY <1>1, <1>2, <1>3

LEMMA FaultIff ==
  ASSUME NEW faults, DOMAIN faults \subseteq Nat, \A i \in DOMAIN faults : faults[i][2] \notin {"none", "result"}
  PROVE  /\ FirstFault(faults) = "none" <=> \A i \in DOMAIN faults : ~faults[i][1]
         /\ FirstFault(faults) # "result"
<1> DEFINE found == {i \in DOMAIN faults : faults[i][1]}
<1>1. found = {} => FirstFault(faults) = "none"
  BY DEF FirstFault
<1>2. found # {} => Min(found) \in DOMAIN faults /\ FirstFault(faults) = faults[Min(found)][2]
  <2>1. found # {} => Min(found) \in found
    BY MinIn
  <2> QED
    BY <2>1 DEF FirstFault
<1> QED
  BY <1>1, <1>2

LEMMA SameFaults == Comparable => (Fault("jsonrpc") = "none" <=> Fault("rest") = "none")
<1> SUFFICES ASSUME Comparable PROVE Fault("jsonrpc") = "none" <=> Fault("rest") = "none"
  OBVIOUS
<1>1. ask.method \in Operations \union {"unknown"}
  BY AsksAssumption DEF Comparable, AsksAssumption
<1>2. CASE ask.method = "unknown"
  BY <1>2, FaultFree DEF Bindings
<1>3. CASE ask.method \in Operations
  <2>1. Reached("rest") = ask.method /\ HandlersAt("POST", Url("jsonrpc")) # {} /\ ask.method # "unknown" /\ ask.method # "none"
    BY <1>3, SetApart, Reaches DEF Comparable, Operations
  <2> DEFINE fine == ask.version = "1.0" /\ ask.params \notin {"array", "bad"}
  <2>2. Fault("jsonrpc") = "none" <=> fine
    <3>1. /\ JsonRpcFaults[1][2] \notin {"none", "result"} /\ JsonRpcFaults[2][2] \notin {"none", "result"}
          /\ JsonRpcFaults[3][2] \notin {"none", "result"} /\ JsonRpcFaults[4][2] \notin {"none", "result"}
          /\ JsonRpcFaults[5][2] \notin {"none", "result"} /\ JsonRpcFaults[6][2] \notin {"none", "result"}
          /\ JsonRpcFaults[7][2] \notin {"none", "result"} /\ JsonRpcFaults[8][2] \notin {"none", "result"}
      BY DEF JsonRpcFaults
    <3>2. \A i \in DOMAIN JsonRpcFaults : JsonRpcFaults[i][2] \notin {"none", "result"}
      BY <3>1, Faults, Upto6
    <3>3. FirstFault(JsonRpcFaults) = "none" <=> \A i \in 1..8 : ~JsonRpcFaults[i][1]
      BY <3>2, Faults, FaultIff
    <3>4. /\ ~JsonRpcFaults[1][1] /\ ~JsonRpcFaults[2][1] /\ ~JsonRpcFaults[3][1] /\ ~JsonRpcFaults[5][1]
          /\ ~JsonRpcFaults[7][1] /\ JsonRpcFaults[4][1] = (ask.params = "array")
          /\ JsonRpcFaults[6][1] = (ask.version # "1.0") /\ JsonRpcFaults[8][1] = (ask.params \in {"bad", "extra"})
      BY <2>1 DEF JsonRpcFaults, Comparable
    <3>5. (\A i \in 1..8 : ~JsonRpcFaults[i][1]) <=> fine
      BY <3>4, Upto6 DEF Comparable
    <3> QED
      BY <3>3, <3>5 DEF Fault
  <2>3. Fault("rest") = "none" <=> fine
    <3>1. /\ RestFaults[1][2] \notin {"none", "result"} /\ RestFaults[2][2] \notin {"none", "result"}
          /\ RestFaults[3][2] \notin {"none", "result"}
      BY DEF RestFaults, Astray
    <3>2. \A i \in DOMAIN RestFaults : RestFaults[i][2] \notin {"none", "result"}
      BY <3>1, Faults, Upto
    <3>3. FirstFault(RestFaults) = "none" <=> \A i \in 1..3 : ~RestFaults[i][1]
      BY <3>2, Faults, FaultIff
    <3>4. ~RestFaults[1][1] /\ RestFaults[2][1] = (ask.version # "1.0") /\ RestFaults[3][1] = Unparsed
      BY <2>1 DEF RestFaults
    <3>5. Unparsed <=> ask.params \in {"array", "bad"}
      BY <2>1 DEF Unparsed, Comparable
    <3>6. (\A i \in 1..3 : ~RestFaults[i][1]) <=> fine
      BY <3>4, <3>5, Upto
    <3> QED
      BY <3>3, <3>6 DEF Fault
  <2> QED
    BY <2>2, <2>3
<1> QED
  BY <1>1, <1>2, <1>3

ContextOf(b) ==
  [operation |-> Reached(b), tenant |-> IF Replaced THEN "builder" ELSE Tenant(b), user |-> ContextUser]

LEMMA SameContext == Comparable /\ Fault("rest") = "none" => Reached("rest") = ask.method /\ ContextOf("jsonrpc") = ContextOf("rest")
<1> SUFFICES ASSUME Comparable, Fault("rest") = "none"
             PROVE  Reached("rest") = ask.method /\ ContextOf("jsonrpc") = ContextOf("rest")
  OBVIOUS
<1>1. ask.method \in Operations
  BY AsksAssumption, FaultFree DEF Comparable, AsksAssumption, Bindings
<1>2. /\ Reached("rest") = ask.method /\ Reached("jsonrpc") = ask.method
      /\ \A b \in Bindings : OfTenant(Url(b)) <=> ask.tenant.path # "none"
      /\ ask.tenant.path # "none" => \A b \in Bindings : Head(Url(b)) = ask.tenant.path
  BY <1>1, SetApart, Reaches DEF Comparable
<1>3. ASSUME NEW b \in Bindings PROVE (IF OfTenant(Url(b)) THEN Head(Url(b)) ELSE "none") = ask.tenant.path
  BY <1>2
<1>4. (IF Reached("rest") \in Bare THEN "none" ELSE ask.tenant.param) = ask.tenant.param
  BY <1>2 DEF Comparable
<1> DEFINE Told == CASE ask.tenant.param # "none" -> ask.tenant.param
                     [] ask.tenant.param = "none" /\ ask.tenant.path # "none" -> ask.tenant.path
                     [] OTHER -> ask.tenant.header
<1>5. Tenant("jsonrpc") = Told
  BY <1>3 DEF Tenant, OfTenant, Bindings
<1>6. Tenant("rest") = Told
  BY <1>3, <1>4 DEF Tenant, OfTenant, Bindings
<1> QED
  BY <1>2, <1>5, <1>6 DEF ContextOf

\* How a request ends that neither its binding nor its context finds fault with.
Endings(b) ==
  << <<Misactivated /\ (b = "jsonrpc" \/ ask.result = "result"), "internal error">>,
     <<ask.result = "none" /\ Reached(b) \in {"GetTask", "CancelTask"}, "a2a error">>,
     <<ask.result = "fails", "internal error">>,
     <<ask.result = "a2a error", "a2a error">> >>
ResultOf(b) == IF FirstFault(Endings(b)) = "none" THEN "result" ELSE FirstFault(Endings(b))
Quiet(b) == b = "rest" /\ Reached(b) = "SubscribeToTask" /\ Verb(b) = "GET" /\ ResultOf(b) # "result"
AnswerOf(b) == [what |-> ResultOf(b), announces |-> IF Quiet(b) THEN {} ELSE Activated]

\* A binding declined the request without calling the handler, or took it to the handler.
Declined(b) ==
  /\ Fault(b) # "none" \/ FirstFault(ContextFaults) # "none"
  /\ handled[b] = NotHandled /\ answer[b].what # "result" /\ answer[b].announces = {}
Taken(b) == Fault(b) = "none" /\ FirstFault(ContextFaults) = "none" /\ handled[b] = ContextOf(b)

\* How far a binding has come with the request.
Progress(b) ==
  /\ phase[b] = "reading" => handled[b] = NotHandled
  /\ phase[b] = "building" => handled[b] = NotHandled /\ Fault(b) = "none"
  /\ phase[b] = "handling" => Taken(b)
  /\ phase[b] = "over" => Declined(b) \/ (Taken(b) /\ answer[b] = AnswerOf(b))

A2aAnswers ==
  /\ phase = [b \in Bindings |-> phase[b]] /\ handled = [b \in Bindings |-> handled[b]]
  /\ answer = [b \in Bindings |-> answer[b]]
  /\ ~IsMcp => ask \in Asks /\ \A b \in Bindings : Progress(b)

\* What becomes of a request is settled by what it asks.
LEMMA AskKept ==
  ASSUME ask' = ask
  PROVE  /\ \A c \in Bindings : Fault(c)' = Fault(c) /\ ContextOf(c)' = ContextOf(c) /\ AnswerOf(c)' = AnswerOf(c)
         /\ FirstFault(ContextFaults)' = FirstFault(ContextFaults)
<1>1. \A c \in Bindings : Fault(c)' = Fault(c)
  BY FaultKept
<1>2. Routes' = Routes /\ \A c \in Bindings : Reached(c)' = Reached(c)
  BY DEF Reached, HandlersAt, Routes, Follows, Verb, Url
<1>3. ASSUME NEW c \in Bindings PROVE ContextOf(c)' = ContextOf(c)
  <2>1. Url(c)' = Url(c) /\ OfTenant(Url(c))' = OfTenant(Url(c))
    BY <1>2 DEF OfTenant, Url, Follows
  <2>2. Tenant(c)' = Tenant(c)
    BY <1>2, <2>1 DEF Tenant, OfTenant
  <2> QED
    BY <1>2, <2>2 DEF ContextOf, Replaced, ContextUser
<1>4. Activated' = Activated /\ \A c \in Bindings : ResultOf(c)' = ResultOf(c)
  BY <1>2 DEF ResultOf, Endings, Misactivated, Activated
<1>5. FirstFault(ContextFaults)' = FirstFault(ContextFaults)
  BY DEF ContextFaults, ContextUser, Replaced
<1>6. \A c \in Bindings : AnswerOf(c)' = AnswerOf(c)
  <2>1. \A c \in Bindings : Quiet(c)' = Quiet(c)
    BY <1>2, <1>4 DEF Quiet, Verb
  <2> QED
    BY <1>4, <2>1 DEF AnswerOf
<1> QED
  BY <1>1, <1>3, <1>5, <1>6

LEMMA OneSender == ASSUME Admission, McpNext PROVE IsMcp' <=> IsMcp
<1>1. CASE Send
  <2>1. at = "ready" /\ scene \in Scenes /\ Found
    BY <1>1 DEF Send, Admission
  <2>2. scene'.sender = scene.sender
    BY <1>1, <2>1, Sending
  <2> QED
    BY <2>2 DEF IsMcp
<1>2. CASE scene' = scene
  BY <1>2 DEF IsMcp
<1>3. \A what : Responds(what) => scene' = scene
  BY DEF Responds, Answer
<1>4. ~Send => scene' = scene
  <2>1. Refuse \/ Listen \/ Route => scene' = scene
    BY DEF Refuse, Listen, Route, Answer
  <2>2. Describe \/ List \/ SkillsGet \/ Tasks => scene' = scene
    BY <1>3 DEF Describe, List, SkillsGet, Tasks, Crashes
  <2>3. ToolsCall \/ ResourcesRead \/ PromptsGet => scene' = scene
    BY <1>3 DEF ToolsCall, ResourcesRead, PromptsGet, Crashes, Begins
  <2>4. HandlerSteps \/ Disconnect \/ CallEnds => scene' = scene
    BY <1>3 DEF HandlerSteps, Disconnect, CallEnds, requestVars
  <2> QED
    BY <2>1, <2>2, <2>3, <2>4 DEF McpNext
<1> QED
  BY <1>1, <1>2, <1>4

LEMMA AnswersInit == Init => A2aAnswers
<1>1. CASE McpInit /\ A2aIdle
  <2>1. IsMcp
    BY <1>1, ScenesAssumption DEF McpInit, ScenesAssumption, IsMcp
  <2> QED
    BY <1>1, <2>1 DEF A2aIdle, A2aAnswers
<1>2. CASE A2aInit /\ McpIdle
  <2>1. \A b \in Bindings : Progress(b)
    BY <1>2 DEF A2aInit, Progress
  <2> QED
    BY <1>2, <2>1 DEF A2aInit, A2aAnswers
<1> QED
  BY <1>1, <1>2 DEF Init

LEMMA AnswersGo ==
  ASSUME A2aAnswers, ask' = ask, IsMcp' <=> IsMcp, NEW b \in Bindings,
         NEW p, phase' = [phase EXCEPT ![b] = p],
         NEW h, handled' = [handled EXCEPT ![b] = h] \/ UNCHANGED handled,
         NEW a, answer' = [answer EXCEPT ![b] = a] \/ UNCHANGED answer,
         ~IsMcp => Progress(b)'
  PROVE  A2aAnswers'
<1>1. phase' = [c \in Bindings |-> phase'[c]] /\ \A c \in Bindings \ {b} : phase'[c] = phase[c]
  BY DEF A2aAnswers
<1>2. handled' = [c \in Bindings |-> handled'[c]] /\ \A c \in Bindings \ {b} : handled'[c] = handled[c]
  BY DEF A2aAnswers
<1>3. answer' = [c \in Bindings |-> answer'[c]] /\ \A c \in Bindings \ {b} : answer'[c] = answer[c]
  BY DEF A2aAnswers
<1>4. ASSUME ~IsMcp, NEW c \in Bindings \ {b} PROVE Progress(c)'
  <2>1. Progress(c)
    BY <1>4 DEF A2aAnswers
  <2> QED
    BY <1>1, <1>2, <1>3, <2>1, AskKept DEF Progress, Declined, Taken
<1> QED
  BY <1>1, <1>2, <1>3, <1>4 DEF A2aAnswers

LEMMA Faulty ==
  /\ \A b \in Bindings : Fault(b) # "result"
  /\ FirstFault(ContextFaults) # "result"
<1>1. \A i \in DOMAIN JsonRpcFaults : JsonRpcFaults[i][2] \notin {"none", "result"}
  <2>1. /\ JsonRpcFaults[1][2] \notin {"none", "result"} /\ JsonRpcFaults[2][2] \notin {"none", "result"}
        /\ JsonRpcFaults[3][2] \notin {"none", "result"} /\ JsonRpcFaults[4][2] \notin {"none", "result"}
        /\ JsonRpcFaults[5][2] \notin {"none", "result"} /\ JsonRpcFaults[6][2] \notin {"none", "result"}
        /\ JsonRpcFaults[7][2] \notin {"none", "result"} /\ JsonRpcFaults[8][2] \notin {"none", "result"}
    BY DEF JsonRpcFaults
  <2> QED
    BY <2>1, Faults, Upto6
<1>2. \A i \in DOMAIN RestFaults : RestFaults[i][2] \notin {"none", "result"}
  <2>1. /\ RestFaults[1][2] \notin {"none", "result"} /\ RestFaults[2][2] \notin {"none", "result"}
        /\ RestFaults[3][2] \notin {"none", "result"}
    BY DEF RestFaults, Astray
  <2> QED
    BY <2>1, Faults, Upto
<1>3. \A i \in DOMAIN ContextFaults : ContextFaults[i][2] \notin {"none", "result"}
  <2>1. /\ ContextFaults[1][2] \notin {"none", "result"} /\ ContextFaults[2][2] \notin {"none", "result"}
        /\ ContextFaults[3][2] \notin {"none", "result"} /\ ContextFaults[4][2] \notin {"none", "result"}
    BY DEF ContextFaults
  <2> QED
    BY <2>1, Faults, Upto
<1>4. FirstFault(JsonRpcFaults) # "result"
  BY <1>1, Faults, FaultIff
<1>5. FirstFault(RestFaults) # "result"
  BY <1>2, Faults, FaultIff
<1>6. FirstFault(ContextFaults) # "result"
  BY <1>3, Faults, FaultIff
<1> QED
  BY <1>4, <1>5, <1>6 DEF Fault

LEMMA AnswersNext == A2aAnswers /\ Admission /\ [Next]_vars => A2aAnswers'
<1> SUFFICES ASSUME A2aAnswers, Admission, [Next]_vars PROVE A2aAnswers'
  OBVIOUS
<1>1. CASE UNCHANGED a2aVars /\ (IsMcp' <=> IsMcp)
  <2>1. UNCHANGED <<ask, phase, handled, answer>>
    BY <1>1 DEF a2aVars
  <2>2. \A b \in Bindings : Progress(b)' <=> Progress(b)
    BY <2>1, AskKept DEF Progress, Declined, Taken
  <2> QED
    BY <1>1, <2>1, <2>2 DEF A2aAnswers
<1>2. UNCHANGED mcpVars => (IsMcp' <=> IsMcp)
  BY DEF mcpVars, IsMcp
<1>3. ASSUME NEW b \in Bindings, Read(b), UNCHANGED mcpVars PROVE A2aAnswers'
  <2>1. phase[b] = "reading" /\ ask' = ask /\ handled' = handled
    BY <1>3 DEF Read
  <2>2. ~IsMcp => handled[b] = NotHandled
    BY <2>1 DEF A2aAnswers, Progress
  <2>3. CASE Fault(b) # "none"
    <3> DEFINE a == [what |-> Fault(b), announces |-> {}]
    <3>1. phase' = [phase EXCEPT ![b] = "over"] /\ answer' = [answer EXCEPT ![b] = a]
      BY <1>3, <2>3 DEF Read, Answers
    <3>2. a.what # "result" /\ a.announces = {}
      BY Faulty
    <3> HIDE DEF a
    <3>3. phase'[b] = "over" /\ answer'[b] = a
      BY <3>1 DEF A2aAnswers
    <3>4. ~IsMcp => Progress(b)'
      BY <2>1, <2>2, <2>3, <3>2, <3>3, AskKept DEF Progress, Declined
    <3> QED
      BY <1>2, <1>3, <2>1, <3>1, <3>4, AnswersGo
  <2>4. CASE Fault(b) = "none"
    <3>1. phase' = [phase EXCEPT ![b] = "building"] /\ answer' = answer
      BY <1>3, <2>4 DEF Read
    <3>2. phase'[b] = "building"
      BY <3>1 DEF A2aAnswers
    <3>3. ~IsMcp => Progress(b)'
      BY <2>1, <2>2, <2>4, <3>2, AskKept DEF Progress
    <3> QED
      BY <1>2, <1>3, <2>1, <3>1, <3>3, AnswersGo
  <2> QED
    BY <2>3, <2>4
<1>4. ASSUME NEW b \in Bindings, BuildContext(b), UNCHANGED mcpVars PROVE A2aAnswers'
  <2>1. phase[b] = "building" /\ ask' = ask
    BY <1>4 DEF BuildContext
  <2>2. ~IsMcp => handled[b] = NotHandled /\ Fault(b) = "none"
    BY <2>1 DEF A2aAnswers, Progress
  <2>3. CASE FirstFault(ContextFaults) # "none"
    <3> DEFINE a == [what |-> FirstFault(ContextFaults), announces |-> {}]
    <3>1. phase' = [phase EXCEPT ![b] = "over"] /\ answer' = [answer EXCEPT ![b] = a] /\ handled' = handled
      BY <1>4, <2>3 DEF BuildContext, Answers
    <3>2. a.what # "result" /\ a.announces = {}
      BY Faulty
    <3> HIDE DEF a
    <3>3. phase'[b] = "over" /\ answer'[b] = a
      BY <3>1 DEF A2aAnswers
    <3>4. ~IsMcp => Progress(b)'
      BY <2>1, <2>2, <2>3, <3>1, <3>2, <3>3, AskKept DEF Progress, Declined
    <3> QED
      BY <1>2, <1>4, <2>1, <3>1, <3>4, AnswersGo
  <2>4. CASE FirstFault(ContextFaults) = "none"
    <3>1. phase' = [phase EXCEPT ![b] = "handling"] /\ handled' = [handled EXCEPT ![b] = ContextOf(b)] /\ answer' = answer
      BY <1>4, <2>4 DEF BuildContext, ContextOf
    <3>2. phase'[b] = "handling" /\ handled'[b] = ContextOf(b)
      BY <3>1 DEF A2aAnswers
    <3>3. ~IsMcp => Progress(b)'
      BY <2>1, <2>2, <2>4, <3>2, AskKept DEF Progress, Taken
    <3> QED
      BY <1>2, <1>4, <2>1, <3>1, <3>3, AnswersGo
  <2> QED
    BY <2>3, <2>4
<1>5. ASSUME NEW b \in Bindings, Handle(b), UNCHANGED mcpVars PROVE A2aAnswers'
  <2>1. phase[b] = "handling" /\ ask' = ask /\ handled' = handled /\ phase' = [phase EXCEPT ![b] = "over"]
    BY <1>5 DEF Handle, Answers
  <2>2. PICK a : answer' = [answer EXCEPT ![b] = a] /\ (Taken(b) => a = AnswerOf(b))
    <3>1. Taken(b) => handled[b].operation = Reached(b)
      BY DEF Taken, ContextOf
    <3> DEFINE faults ==
                 << <<Misactivated /\ (b = "jsonrpc" \/ ask.result = "result"), "internal error">>,
                    <<ask.result = "none" /\ handled[b].operation \in {"GetTask", "CancelTask"}, "a2a error">>,
                    <<ask.result = "fails", "internal error">>,
                    <<ask.result = "a2a error", "a2a error">> >>
               what == IF FirstFault(faults) = "none" THEN "result" ELSE FirstFault(faults)
    <3>2. answer' = [answer EXCEPT ![b] = [what |-> what, announces |-> Announced(b, what)]]
      BY <1>5 DEF Handle, Answers
    <3>3. Taken(b) => what = ResultOf(b)
      BY <3>1 DEF ResultOf, Endings
    <3> HIDE DEF what, faults
    <3>4. Taken(b) => [what |-> what, announces |-> Announced(b, what)] = AnswerOf(b)
      BY <3>1, <3>3 DEF AnswerOf, Quiet, Announced
    <3> QED
      BY <3>2, <3>4
  <2>3. phase'[b] = "over" /\ answer'[b] = a
    BY <2>1, <2>2 DEF A2aAnswers
  <2>4. ~IsMcp => Taken(b)
    BY <2>1 DEF A2aAnswers, Progress
  <2>5. ~IsMcp => Progress(b)'
    BY <2>1, <2>2, <2>3, <2>4, AskKept DEF Progress, Taken
  <2> QED
    BY <1>2, <1>5, <2>1, <2>2, <2>5, AnswersGo
<1>6. CASE McpNext /\ UNCHANGED a2aVars
  BY <1>1, <1>6, OneSender
<1>7. CASE A2aNext /\ UNCHANGED mcpVars
  BY <1>3, <1>4, <1>5, <1>7 DEF A2aNext
<1>8. CASE UNCHANGED vars
  BY <1>1, <1>2, <1>8 DEF vars
<1> QED
  BY <1>6, <1>7, <1>8 DEF Next

\* Of a request the bindings agree on, the handler's result is a success over both or none.
LEMMA SameResult ==
  ASSUME Comparable, Fault("rest") = "none"
  PROVE  ResultOf("jsonrpc") = "result" <=> ResultOf("rest") = "result"
<1>1. ask.result \in {"result", "none", "a2a error", "fails"} /\ (ask.result = "none" => ask.method \in {"GetTask", "CancelTask"})
  BY AsksAssumption DEF AsksAssumption, Comparable
<1>2. Reached("rest") = ask.method /\ Reached("jsonrpc") = Reached("rest")
  BY SameContext DEF ContextOf
<1>3. ASSUME NEW b \in Bindings
      PROVE  ResultOf(b) = "result" <=> ask.result = "result" /\ ~Misactivated
  <2>1. DOMAIN Endings(b) = 1..4
    BY DEF Endings
  <2>2. /\ Endings(b)[1][2] \notin {"none", "result"} /\ Endings(b)[2][2] \notin {"none", "result"}
        /\ Endings(b)[3][2] \notin {"none", "result"} /\ Endings(b)[4][2] \notin {"none", "result"}
    BY DEF Endings
  <2>3. \A i \in 1..4 : Endings(b)[i][2] \notin {"none", "result"}
    BY <2>2, Upto
  <2>4. ResultOf(b) = "result" <=> \A i \in 1..4 : ~Endings(b)[i][1]
    BY <2>1, <2>3, FaultIff DEF ResultOf
  <2>5. /\ Endings(b)[1][1] = (Misactivated /\ (b = "jsonrpc" \/ ask.result = "result"))
        /\ Endings(b)[2][1] = (ask.result = "none" /\ Reached(b) \in {"GetTask", "CancelTask"})
        /\ Endings(b)[3][1] = (ask.result = "fails") /\ Endings(b)[4][1] = (ask.result = "a2a error")
    BY DEF Endings
  <2>6. Reached(b) = ask.method
    BY <1>2 DEF Bindings
  <2>7. (\A i \in 1..4 : ~Endings(b)[i][1])
          <=> ~Endings(b)[1][1] /\ ~Endings(b)[2][1] /\ ~Endings(b)[3][1] /\ ~Endings(b)[4][1]
    BY Upto
  <2> QED
    BY <1>1, <2>4, <2>5, <2>6, <2>7
<1> QED
  BY <1>3 DEF Bindings

\* Both bindings of the A2A endpoint treat a request alike, whatever it asks for, wherever its
\* tenant is told and however the handler ends (a2a/plugin.py:367): they differ for a JSON-RPC
\* notification, an unknown field, a tenant named like a route, what is told besides the path
\* of an operation that reads nothing else, and the extensions of a subscription that fails.
THEOREM BindingsAlike == Spec => []BindingsAgree
<1>1. Init => Admission /\ A2aAnswers
  BY AdmissionInit, AnswersInit
<1>2. Admission /\ A2aAnswers /\ [Next]_vars => Admission' /\ A2aAnswers'
  BY AdmissionNext, AnswersNext
<1>3. A2aAnswers => BindingsAgree
  <2> SUFFICES ASSUME A2aAnswers, ~IsMcp, \A b \in Bindings : phase[b] = "over", Comparable
               PROVE  /\ handled["jsonrpc"] = handled["rest"]
                      /\ Outcome("jsonrpc") = Outcome("rest")
                      /\ \/ ask.method = "SubscribeToTask" /\ Outcome("rest") = "failure"
                         \/ answer["jsonrpc"].announces = answer["rest"].announces
    BY DEF BindingsAgree, Comparable, A2aAnswers
  <2>1. \A b \in Bindings : Declined(b) \/ (Taken(b) /\ answer[b] = AnswerOf(b))
    BY DEF A2aAnswers, Progress
  <2>2. "jsonrpc" \in Bindings /\ "rest" \in Bindings
    BY DEF Bindings
  <2>3. CASE Fault("rest") = "none" /\ FirstFault(ContextFaults) = "none"
    <3>1. \A b \in Bindings : Fault(b) = "none"
      BY <2>3, SameFaults DEF Bindings
    <3>2. \A b \in Bindings : handled[b] = ContextOf(b) /\ answer[b] = AnswerOf(b)
      BY <2>1, <2>3, <3>1 DEF Declined, Taken
    <3>3. /\ ContextOf("jsonrpc") = ContextOf("rest") /\ Reached("rest") = ask.method
          /\ ResultOf("jsonrpc") = "result" <=> ResultOf("rest") = "result"
      BY <2>3, SameContext, SameResult
    <3>4. ASSUME NEW b \in Bindings
          PROVE  answer[b].what = ResultOf(b) /\ answer[b].announces = IF Quiet(b) THEN {} ELSE Activated
      <4>1. answer[b] = AnswerOf(b)
        BY <3>2
      <4> QED
        BY <4>1 DEF AnswerOf
    <3>5. handled["jsonrpc"] = handled["rest"]
      BY <2>2, <3>2, <3>3, Zenon
    <3>6. Outcome("jsonrpc") = Outcome("rest")
      BY <2>2, <3>3, <3>4 DEF Outcome
    <3>7. answer["jsonrpc"].announces = Activated
      BY <2>2, <3>4 DEF Quiet
    <3>8. CASE Quiet("rest")
      <4>1. ask.method = "SubscribeToTask" /\ answer["rest"].what # "result"
        BY <2>2, <3>3, <3>4, <3>8 DEF Quiet
      <4> QED
        BY <3>5, <3>6, <4>1 DEF Outcome
    <3>9. CASE ~Quiet("rest")
      BY <2>2, <3>4, <3>5, <3>6, <3>7, <3>9
    <3> QED
      BY <3>8, <3>9
  <2>4. CASE Fault("rest") # "none" \/ FirstFault(ContextFaults) # "none"
    <3>1. \A b \in Bindings : ~Taken(b)
      BY <2>4, SameFaults DEF Taken, Bindings
    <3>2. \A b \in Bindings : Declined(b)
      BY <2>1, <3>1
    <3> QED
      BY <2>2, <3>2 DEF Declined, Outcome
  <2> QED
    BY <2>3, <2>4
<1> QED
  BY <1>1, <1>2, <1>3, PTL DEF Spec

-----------------------------------------------------------------------------
(* What the senders prepare *)

\* Of two places, the one the walk comes to later, place by place.
Beyond(a, b) ==
  \E i \in 1..Len(a) :
    /\ \A j \in 1..(i - 1) : j <= Len(b) /\ a[j] = b[j]
    /\ i > Len(b) \/ a[i] > b[i]

LEMMA Ahead ==
  ASSUME NEW a \in Seq(Nat), NEW b \in Seq(Nat), After(a, b)
  PROVE  Beyond(a, b)
<1>1. Len(a) \in Nat /\ Len(b) \in Nat /\ DOMAIN a = 1..Len(a) /\ DOMAIN b = 1..Len(b)
  OBVIOUS
<1>2. CASE IsStrictPrefix(b, a)
  <2>1. Len(b) <= Len(a) /\ SubSeq(b, 1, Len(b)) = SubSeq(a, 1, Len(b)) /\ a # b
    BY <1>2 DEF IsStrictPrefix, IsPrefix
  <2>2. \A j \in 1..Len(b) : a[j] = b[j]
    <3>1. ASSUME NEW j \in 1..Len(b) PROVE SubSeq(b, 1, Len(b))[j] = b[j] /\ SubSeq(a, 1, Len(b))[j] = a[j]
      BY <1>1, <2>1
    <3> QED
      BY <2>1, <3>1
  <2>3. Len(b) # Len(a)
    <3>1. a = [j \in 1..Len(a) |-> a[j]] /\ b = [j \in 1..Len(b) |-> b[j]]
      OBVIOUS
    <3>2. ASSUME Len(b) = Len(a) PROVE a = b
      <4>1. [j \in 1..Len(a) |-> a[j]] = [j \in 1..Len(b) |-> b[j]]
        BY <2>2, <3>2
      <4> QED
        BY <3>1, <4>1
    <3> QED
      BY <2>1, <3>2
  <2> DEFINE i == Len(b) + 1
  <2>4. i \in 1..Len(a) /\ i > Len(b)
    <3>1. \A k, l \in Nat : l <= k /\ l # k => l + 1 \in 1..k /\ l + 1 > l
      OBVIOUS
    <3> QED
      BY <1>1, <2>1, <2>3, <3>1
  <2>5. \A j \in 1..(i - 1) : j \in 1..Len(b)
    BY <1>1
  <2>6. \A j \in 1..(i - 1) : j <= Len(b) /\ a[j] = b[j]
    BY <1>1, <2>2, <2>5
  <2> HIDE DEF i
  <2> QED
    BY <2>4, <2>6 DEF Beyond
<1>3. CASE \E i \in DOMAIN a \cap DOMAIN b : a[i] > b[i] /\ SubSeq(a, 1, i - 1) = SubSeq(b, 1, i - 1)
  <2>1. PICK i \in 1..Len(a) : i \in 1..Len(b) /\ a[i] > b[i] /\ SubSeq(a, 1, i - 1) = SubSeq(b, 1, i - 1)
    BY <1>1, <1>3
  <2>2. ASSUME NEW j \in 1..(i - 1) PROVE j <= Len(b) /\ a[j] = b[j]
    <3>1. SubSeq(a, 1, i - 1)[j] = a[j] /\ SubSeq(b, 1, i - 1)[j] = b[j]
      BY <1>1, <2>1
    <3> QED
      BY <1>1, <2>1, <3>1
  <2> QED
    BY <2>1, <2>2 DEF Beyond
<1> QED
  BY <1>2, <1>3 DEF After

LEMMA BeyondOrders ==
  ASSUME NEW a \in Seq(Nat), NEW b \in Seq(Nat), NEW c \in Seq(Nat)
  PROVE  ~Beyond(a, a) /\ (Beyond(a, b) /\ Beyond(b, c) => Beyond(a, c))
<1>1. /\ Len(a) \in Nat /\ Len(b) \in Nat /\ Len(c) \in Nat
      /\ \A i \in 1..Len(a) : a[i] \in Nat
      /\ \A i \in 1..Len(b) : b[i] \in Nat
      /\ \A i \in 1..Len(c) : c[i] \in Nat
  OBVIOUS
<1>2. ~Beyond(a, a)
  BY <1>1 DEF Beyond
<1>3. ASSUME Beyond(a, b), Beyond(b, c) PROVE Beyond(a, c)
  <2>1. PICK i \in 1..Len(a) : (\A j \in 1..(i - 1) : j <= Len(b) /\ a[j] = b[j]) /\ (i > Len(b) \/ a[i] > b[i])
    BY <1>3 DEF Beyond
  <2>2. PICK k \in 1..Len(b) : (\A j \in 1..(k - 1) : j <= Len(c) /\ b[j] = c[j]) /\ (k > Len(c) \/ b[k] > c[k])
    BY <1>3 DEF Beyond
  <2>3. CASE i <= k
    <3>1. ASSUME NEW j \in 1..(i - 1) PROVE j <= Len(c) /\ a[j] = c[j]
      <4>1. j \in 1..(k - 1)
        BY <1>1, <2>1, <2>3
      <4> QED
        BY <2>1, <2>2, <4>1
    <3>2. i > Len(c) \/ a[i] > c[i]
      <4>1. a[i] \in Nat /\ b[k] \in Nat /\ i \in 1..Len(b) /\ b[i] \in Nat /\ a[i] > b[i]
        BY <1>1, <2>1, <2>2, <2>3
      <4>2. CASE i < k
        BY <1>1, <2>2, <4>1, <4>2
      <4>3. CASE i = k
        <5>1. (i > Len(c) \/ b[i] > c[i]) /\ Len(c) \in Nat /\ i \in Nat /\ i > 0
          BY <1>1, <2>2, <4>1, <4>3
        <5>2. CASE i > Len(c)
          BY <5>2
        <5>3. CASE i <= Len(c) /\ b[i] > c[i]
          <6>1. c[i] \in Nat
            BY <1>1, <5>1, <5>3
          <6>2. \A x, y, z \in Nat : x > y /\ y > z => x > z
            OBVIOUS
          <6>3. a[i] > c[i]
            BY <4>1, <5>3, <6>1, <6>2
          <6> QED
            BY <6>3
        <5> QED
          BY <5>1, <5>2, <5>3
      <4> QED
        BY <2>3, <4>2, <4>3
    <3> QED
      BY <3>1, <3>2 DEF Beyond
  <2>4. CASE k < i
    <3>1. k \in 1..Len(a) /\ \A j \in 1..(k - 1) : j <= Len(c) /\ a[j] = c[j]
      BY <1>1, <2>1, <2>2, <2>4
    <3>2. k > Len(c) \/ a[k] > c[k]
      BY <1>1, <2>1, <2>2, <2>4
    <3> QED
      BY <3>1, <3>2 DEF Beyond
  <2> QED
    BY <2>3, <2>4
<1> QED
  BY <1>2, <1>3

\* Of finitely many fields one comes last.
LEMMA LatestIn ==
  ASSUME NEW G, IsFiniteSet(G), G # {}, \A g \in G : g.at \in Seq(Nat)
  PROVE  \E f \in G : \A g \in G : ~After(g.at, f.at)
<1> DEFINE Over(f) == {g \in G : Beyond(g.at, f.at)}
           sizes == {Cardinality(Over(f)) : f \in G}
<1>1. \A f \in G : IsFiniteSet(Over(f)) /\ Cardinality(Over(f)) \in Nat
  <2>1. \A f \in G : Over(f) \in SUBSET G
    OBVIOUS
  <2> HIDE DEF Over
  <2> QED
    BY <2>1, FS_Subset, FS_CardinalityType
<1>2. sizes \subseteq Nat /\ sizes # {}
  BY <1>1
<1>3. PICK f \in G : \A g \in G : Cardinality(Over(f)) <= Cardinality(Over(g))
  <2>1. PICK n \in sizes : \A k \in sizes : n <= k
    BY <1>2, LeastNat
  <2>2. PICK f \in G : n = Cardinality(Over(f))
    BY <2>1
  <2>3. \A g \in G : Cardinality(Over(g)) \in sizes
    OBVIOUS
  <2> HIDE DEF Over, sizes
  <2> QED
    BY <2>1, <2>2, <2>3
<1>4. ASSUME NEW g \in Over(f) PROVE FALSE
  <2>1. g \in G /\ Beyond(g.at, f.at)
    OBVIOUS
  <2>2. Over(g) \in SUBSET Over(f) /\ g \notin Over(g)
    BY <2>1, BeyondOrders
  <2>3. IsFiniteSet(Over(f)) /\ Cardinality(Over(f)) <= Cardinality(Over(g))
    BY <1>1, <1>3, <2>1
  <2>4. Cardinality(Over(f)) \in Nat /\ Cardinality(Over(g)) \in Nat
    BY <1>1, <2>1
  <2> HIDE DEF Over
  <2>5. Cardinality(Over(g)) <= Cardinality(Over(f)) /\ (Cardinality(Over(f)) = Cardinality(Over(g)) => Over(f) = Over(g))
    BY <2>2, <2>3, FS_Subset
  <2> QED
    BY <1>4, <2>2, <2>3, <2>4, <2>5
<1>5. \A g \in G : ~Beyond(g.at, f.at)
  BY <1>4
<1>6. \A g \in G : After(g.at, f.at) => Beyond(g.at, f.at)
  BY Ahead
<1> QED
  BY <1>5, <1>6

LEMMA Coding ==
  ASSUME NEW text, text # "padded"
  PROVE  Decode(Encode(text)) = text /\ (text # "none" => Encode(text) # NoHeader)
BY DEF Decode, Encode, NoHeader

LEMMA Metadata ==
  ASSUME NEW m, DOMAIN m = MessageFields, NEW n, n = WithMetadata(m)
  PROVE  /\ n.meta = "object" /\ n.version = (IF m.version = "none" THEN Current ELSE m.version)
         /\ n.capabilities = (IF m.capabilities = "none" THEN "object" ELSE m.capabilities)
         /\ n.method = m.method /\ n.name = m.name /\ n.params = m.params
         /\ n.arguments = m.arguments /\ n.argument = m.argument
BY DEF WithMetadata, MessageFields

LEMMA Mirroring ==
  ASSUME NEW m, NEW A, IsFiniteSet(A), \A g \in A : g.at \in Seq(Nat),
         m.method = "tools/call", m.arguments # "other",
         NEW f \in A, \A g \in A : g.header = f.header => g.path = f.path
  PROVE  ParamAt(Mirrored(m, A), f.header) =
           IF ArgumentAt(m, f.path) = "none" THEN NoHeader ELSE Encode(ArgumentAt(m, f.path))
<1> DEFINE given == {g \in A : ArgumentAt(m, g.path) # "none"}
           Latest(fields) == CHOOSE g \in fields : \A k \in fields : ~After(k.at, g.at)
           names == {g.header : g \in given}
           Value(h) == Encode(ArgumentAt(m, Latest({g \in given : g.header = h}).path))
           params == [h \in names |-> Value(h)]
<1>1. Mirrored(m, A) = params
  BY DEF Mirrored
<1>2. CASE ArgumentAt(m, f.path) = "none"
  <2>1. f.header \notin names
    BY <1>2
  <2> QED
    BY <1>1, <1>2, <2>1 DEF ParamAt
<1>3. CASE ArgumentAt(m, f.path) # "none"
  <2> DEFINE same == {g \in given : g.header = f.header}
  <2>1. f \in same /\ same \in SUBSET A
    BY <1>3
  <2>2. IsFiniteSet(same) /\ same # {} /\ \A g \in same : g.at \in Seq(Nat)
    BY <2>1, FS_Subset
  <2>3. \E g \in same : \A k \in same : ~After(k.at, g.at)
    <3> HIDE DEF same
    <3> QED
      BY <2>2, LatestIn
  <2>4. Latest(same) \in same
    <3> HIDE DEF same
    <3> QED
      BY <2>3
  <2>5. Latest(same).path = f.path
    BY <2>4
  <2>6. f.header \in names /\ Value(f.header) = Encode(ArgumentAt(m, f.path))
    BY <2>1, <2>5
  <2> HIDE DEF names, Value
  <2> QED
    BY <1>1, <1>3, <2>6 DEF ParamAt
<1> QED
  BY <1>2, <1>3

LEMMA Fits ==
  ASSUME NEW m, DOMAIN m = MessageFields, NEW n, n = WithMetadata(m), NEW h,
         h.version = Current, h.method = m.method, h.name = RequestHeaders(m).name, NEW fields,
         n.capabilities = "object", n.version \in {"none", Current}, n.method \notin {"initialize", "ping"},
         n.method \in Named => n.name \notin {"none", "padded"},
         n.method = "tools/call" /\ n.arguments # "other" => ~ParamDiffers(n, h, fields)
  PROVE  MetadataError(n, h, fields) = "none"
<1> DEFINE checks == ModernChecks(n, h, fields)
<1>1. n.meta = "object" /\ n.version = Current /\ n.method = m.method /\ n.name = m.name
  <2>1. n.meta = "object" /\ n.version # "none" /\ n.method = m.method /\ n.name = m.name
    BY Metadata DEF Current
  <2> QED
    BY <2>1
<1>2. n.method \in Named => Decode(h.name) = n.name
  <2>1. n.method \in Named => h.name = Encode(n.name)
    BY <1>1 DEF RequestHeaders
  <2> QED
    BY <2>1, Coding
<1>3. ~checks[1][1]
  BY <1>1 DEF ModernChecks, Current
<1>4. ~checks[2][1]
  BY <1>1 DEF ModernChecks
<1>5. ~checks[3][1]
  BY <1>1 DEF ModernChecks, Supported
<1>6. ~checks[4][1]
  BY DEF ModernChecks
<1>7. ~checks[5][1]
  BY <1>2 DEF ModernChecks
<1>8. ~checks[6][1]
  BY DEF ModernChecks
<1>9. DOMAIN checks = 1..6
  BY Checks
<1> HIDE DEF checks
<1>10. Pass(checks)
  BY <1>3, <1>4, <1>5, <1>6, <1>7, <1>8, <1>9, Upto6 DEF Pass
<1>11. FirstError(checks) = "none"
  BY <1>10, Clear
<1> QED
  BY <1>1, <1>11 DEF MetadataError, checks

LEMMA FitsHandshake ==
  ASSUME NEW m, Handshake(m), m.requested \in {"none", "2025-06-18"}, m.meta # "bad", ~HasMetadata(m),
         NEW h, h = HandshakeHeaders(m), NEW fields
  PROVE  MetadataError(m, h, fields) = "none"
<1>1. m.method \in {"initialize", "ping"}
  BY DEF Handshake
<1>2. h.version = "2025-06-18" /\ h.method = "none" /\ h.name = NoHeader
  <2>1. m.method \notin Named
    BY <1>1 DEF Named
  <2> QED
    BY <2>1 DEF HandshakeHeaders, RequestHeaders
<1>3. ~IsModern(m, h)
  BY <1>1, <1>2 DEF IsModern
<1> QED
  BY <1>3 DEF MetadataError

LEMMA Mirrors ==
  ASSUME NEW n, NEW h, NEW fields, NEW all, fields \subseteq all, IsFiniteSet(all), \A g \in all : g.at \in Seq(Nat),
         \A f \in fields : ArgumentAt(n, f.path) # "padded" /\ \A g \in all : g.header = f.header => g.path = f.path,
         n.method = "tools/call", n.arguments # "other", h.params = Mirrored(n, all)
  PROVE  ~ParamDiffers(n, h, fields)
<1> SUFFICES ASSUME NEW f \in fields
             PROVE  ~(IF ArgumentAt(n, f.path) = "none" THEN ParamAt(h.params, f.header) # NoHeader
                      ELSE ParamAt(h.params, f.header) = NoHeader \/ Decode(ParamAt(h.params, f.header)) # ArgumentAt(n, f.path))
  BY DEF ParamDiffers
<1>1. ParamAt(h.params, f.header) = IF ArgumentAt(n, f.path) = "none" THEN NoHeader ELSE Encode(ArgumentAt(n, f.path))
  BY Mirroring
<1> QED
  BY <1>1, Coding

LEMMA MirrorsNone ==
  ASSUME NEW n, NEW h, NEW fields, \A f \in fields : ArgumentAt(n, f.path) = "none",
         \A f \in fields : ParamAt(h.params, f.header) = NoHeader
  PROVE  ~ParamDiffers(n, h, fields)
BY DEF ParamDiffers

LEMMA PreparedSent ==
  ASSUME at = "ready", scene \in Scenes, Found, Send, scene'.sender # "direct", ~Mistaken', ~Diverges'
  PROVE  HeaderError' = "none"
<1> DEFINE n == Prepared.message
           h == Prepared.headers
           s == scene.server
           sender == scene.sender
           fields == IF Registered(n.name) THEN Checked(s.schema) ELSE {}
<1>1. scene' = [sender |-> sender, message |-> n, headers |-> h, server |-> s]
  BY Sending
<1>2. message' = n /\ headers' = h /\ server' = s /\ scene'.sender = sender
  BY <1>1 DEF message, headers, server
<1>3. ToolFields' = fields
  BY <1>2 DEF ToolFields
<1>4. HeaderError' = MetadataError(n, h, fields)
  BY <1>2, <1>3 DEF HeaderError
<1>5. /\ DOMAIN message = MessageFields /\ sender \in {"client", "bridge"}
      /\ IsFiniteSet(Annotated(s.schema)) /\ \A field \in Annotated(s.schema) : field.at \in Seq(Nat)
  BY <1>2, ScenesAssumption DEF ScenesAssumption, message
<1>6. /\ n.meta # "bad" /\ n.capabilities = "object"
      /\ n.method \in Named => n.name # "none"
      /\ n.method \in {"initialize", "ping"} => ~HasMetadata(n)
  BY <1>2 DEF Mistaken
<1>7. /\ n.version \in {"none", Current}
      /\ n.method \in Named => n.name # "padded"
      /\ Handshake(n) => n.requested \in {"none", "2025-06-18"}
  BY <1>2 DEF Diverges
<1>8. \A field \in Checked(s.schema) :
        /\ ArgumentAt(n, field.path) # "none" => sender # "client" /\ s.visible
        /\ ArgumentAt(n, field.path) # "padded"
        /\ \A other \in Annotated(s.schema) : other.header = field.header => other.path = field.path
  BY <1>2 DEF Diverges
<1>9. Checked(s.schema) \subseteq Annotated(s.schema)
  BY DEF Checked
<1> DEFINE m == message
<1>10. ASSUME n = WithMetadata(m), h.version = Current, h.method = m.method, h.name = RequestHeaders(m).name,
              n.method = "tools/call" /\ n.arguments # "other" => ~ParamDiffers(n, h, fields)
       PROVE  MetadataError(n, h, fields) = "none"
  <2>1. n.meta = "object" /\ n.version # "none"
    BY <1>5, <1>10, Metadata DEF Current
  <2>2. n.method \notin {"initialize", "ping"}
    BY <1>6, <2>1 DEF HasMetadata
  <2>3. DOMAIN m = MessageFields /\ (n.method \in Named => n.name \notin {"none", "padded"})
    BY <1>5, <1>6, <1>7
  <2> HIDE DEF n, h, m, fields
  <2> QED
    BY <1>6, <1>7, <1>10, <2>2, <2>3, Fits
<1>11. CASE sender = "client"
  <2>1. n = WithMetadata(m) /\ h = RequestHeaders(m)
    BY <1>11 DEF Prepared, ByClient
  <2>2. h.params = NoParams /\ h.version = Current /\ h.method = m.method
    BY <2>1 DEF RequestHeaders
  <2>3. \A f \in fields : ArgumentAt(n, f.path) = "none" /\ ParamAt(h.params, f.header) = NoHeader
    BY <1>8, <1>11, <2>2 DEF ParamAt, NoParams
  <2>4. ~ParamDiffers(n, h, fields)
    <3> HIDE DEF n, h, fields
    <3> QED
      BY <2>3, MirrorsNone
  <2> QED
    BY <1>4, <1>10, <2>1, <2>2, <2>4
<1>12. CASE sender = "bridge" /\ Handshake(m)
  <2>1. n = m /\ h = HandshakeHeaders(m)
    BY <1>12 DEF Prepared, ByBridge
  <2>2. m.method \in {"initialize", "ping"}
    BY <1>12 DEF Handshake
  <2> HIDE DEF n, h, m, fields
  <2> QED
    BY <1>4, <1>6, <1>7, <1>12, <2>1, <2>2, FitsHandshake
<1>13. CASE sender = "bridge" /\ ~Handshake(m)
  <2>1. n = WithMetadata(m) /\ h = [RequestHeaders(m) EXCEPT !.params = Mirrored(m, Shown)]
    BY <1>13 DEF Prepared, ByBridge
  <2>2. h.params = Mirrored(m, Shown) /\ h.version = Current /\ h.method = m.method /\ h.name = RequestHeaders(m).name
    BY <2>1 DEF RequestHeaders
  <2>3. n.method = m.method /\ n.name = m.name /\ n.arguments = m.arguments /\ n.argument = m.argument
    BY <1>5, <2>1, Metadata
  <2>4. \A path : ArgumentAt(n, path) = ArgumentAt(m, path)
    BY <2>3 DEF ArgumentAt
  <2>5. ASSUME n.method = "tools/call", n.arguments # "other" PROVE ~ParamDiffers(n, h, fields)
    <3>1. \A A : Mirrored(n, A) = Mirrored(m, A)
      BY <2>3 DEF Mirrored, ArgumentAt
    <3>2. CASE ~Registered(m.name)
      <4>1. fields = {}
        BY <2>3, <3>2
      <4> QED
        BY <4>1, MirrorsNone
    <3>3. CASE Registered(m.name) /\ s.visible
      <4>1. fields = Checked(s.schema) /\ Shown = Annotated(s.schema)
        BY <2>3, <3>3 DEF Shown, server
      <4>2. h.params = Mirrored(n, Annotated(s.schema))
        BY <2>2, <3>1, <4>1
      <4> HIDE DEF n, h, m, fields
      <4> QED
        BY <1>5, <1>8, <1>9, <2>5, <4>1, <4>2, Mirrors
    <3>4. CASE Registered(m.name) /\ ~s.visible
      <4>1. fields = Checked(s.schema) /\ Shown = {}
        BY <2>3, <3>4 DEF Shown, server
      <4>2. \A f \in fields : ArgumentAt(n, f.path) = "none"
        BY <1>8, <3>4, <4>1
      <4>3. DOMAIN h.params = {}
        <5>1. h.params = Mirrored(m, {})
          BY <2>2, <4>1
        <5>2. m.method = "tools/call" /\ m.arguments # "other"
          BY <2>3, <2>5
        <5>3. DOMAIN Mirrored(m, {}) = {}
          BY <5>2 DEF Mirrored
        <5> QED
          BY <5>1, <5>3
      <4>4. \A f \in fields : ParamAt(h.params, f.header) = NoHeader
        BY <4>3 DEF ParamAt
      <4> HIDE DEF n, h, m, fields
      <4> QED
        BY <4>2, <4>4, MirrorsNone
    <3> QED
      BY <3>2, <3>3, <3>4
  <2> QED
    BY <1>4, <1>10, <2>1, <2>2, <2>5
<1> QED
  BY <1>4, <1>5, <1>11, <1>12, <1>13

\* What the client and the bridge prepare passes the checks of the server, for every message
\* and every schema with annotations (mcp/client.py:214, mcp/bridge.py:606).
THEOREM PreparedTaken == Spec => []PreparedAccepted
<1>1. Init => PreparedAccepted
  BY DEF Init, McpInit, McpIdle, PreparedAccepted
<1>2. Admission /\ PreparedAccepted /\ [Next]_vars => PreparedAccepted'
  <2> SUFFICES ASSUME Admission, PreparedAccepted, [Next]_vars, at' = "sent", scene'.sender # "direct", ~Mistaken', ~Diverges'
               PROVE  HeaderError' = "none"
    BY DEF PreparedAccepted
  <2>1. CASE Send
    <3>1. at = "ready" /\ scene \in Scenes /\ Found
      BY <2>1 DEF Send, Admission
    <3> QED
      BY <2>1, <3>1, PreparedSent
  <2>2. CASE UNCHANGED <<scene, at>>
    <3>1. scene' = scene /\ at = "sent"
      BY <2>2
    <3>2. Mistaken' = Mistaken /\ Diverges' = Diverges /\ HeaderError' = HeaderError
      BY <3>1 DEF Mistaken, Diverges, HeaderError, message, headers, server, ToolFields
    <3> QED
      BY <3>1, <3>2 DEF PreparedAccepted
  <2>3. CASE at' # "sent"
    BY <2>3
  <2>4. Send \/ at' # "sent" \/ UNCHANGED <<scene, at>>
    <3>1. CASE UNCHANGED mcpVars
      BY <3>1 DEF mcpVars
    <3>2. CASE McpNext
      BY <3>2 DEF McpNext, Refuse, Listen, Route, Describe, List, SkillsGet, ToolsCall, ResourcesRead, PromptsGet, Tasks,
                 HandlerSteps, Disconnect, CallEnds, Answer, Responds, Crashes, Begins, requestVars
    <3> QED
      BY <3>1, <3>2 DEF Next, vars
  <2> QED
    BY <2>1, <2>2, <2>3, <2>4
<1> QED
  BY <1>1, <1>2, AdmissionInit, AdmissionNext, PTL DEF Spec

=============================================================================
