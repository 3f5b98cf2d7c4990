-------------------------- MODULE McpSessionProofs --------------------------
(***************************************************************************)
(* The client in its session, for any event types, offers, keys, cursors   *)
(* and sessions, any number of requests, and streams of any length: every  *)
(* answer is understood, every request is welcome to a strict server, and  *)
(* nothing is subscribed to that cannot be delivered.                      *)
(***************************************************************************)
EXTENDS McpSession, SubscriptionManagerProofs, FiniteSetTheorems, WellFoundedInduction

\* A request under way is made in the session the client has, by the coroutine
\* that waits for it.
RequestFits ==
    \A q \in wire :
        /\ q.session = session /\ q.id \in Nat
        /\ \/ /\ q.method \in {"initialize", "notifications/initialized"}
              /\ start = "initialize"
           \/ q.method = "events/list" /\ start = "list"
           \/ q.method = "events/subscribe" /\ (start = "subscribe" \/ loop = "refresh")
           \/ q.method = "events/unsubscribe" /\ stop = "unsubscribe"

\* Whatever makes requests other than the handshake's has something to show for it.
HandshakeOver == start \in {"list", "subscribe"} \/ secret # {} \/ loop # "none"

\* Before the handshake is over nothing is published and no loop runs; after it
\* the client has its session, and the server knows it unless it restarted.
HandshakeComesFirst ==
    /\ start \in {"new", "initialize"} => secret = {} /\ loop = "none"
    /\ HandshakeOver => session # {} /\ (session \subseteq ready \/ restarted)

\* The inductive invariant.  RequestsAreWelcome alone is not inductive: a
\* refresh or an unsubscribe is made long after the handshake, in a session that
\* HandshakeComesFirst remembers to be initialized, and RequestFits ties the
\* request to that session.  It also rests on AnswersAreUnderstood: taking the
\* refusal of `initialize` for a success would go on without a session.
IInv == /\ TypeOK
        /\ RequestFits
        /\ HandshakeComesFirst
        /\ AnswersAreUnderstood
        /\ RequestsAreWelcome
        /\ AsksForWhatIsOffered
-----------------------------------------------------------------------------
(***************************************************************************)
(* How a stream is read.  The answer wins wherever it is in the stream,    *)
(* whatever the stream is about besides: by its id, or, if it has none, as *)
(* the one response there is.                                              *)
(***************************************************************************)

\* The first index that qualifies is there.
LEMMA FirstIsFirst ==
    ASSUME NEW S, S \subseteq Nat, S # {}
    PROVE  First(S) \in S /\ \A j \in S : First(S) <= j
<1> DEFINE R == OpToRel(<, Nat)
<1>1. IsWellFoundedOn(R, Nat)
  BY NatLessThanWellFounded
<1>2. \A i, j \in Nat : i < j => <<i, j>> \in R
  BY DEF OpToRel
<1> HIDE DEF R
<1>3. PICK i \in S : \A j \in S : <<j, i>> \notin R
  BY <1>1, WFMin
<1>4. \A j \in S : ~(j < i)
  BY <1>2, <1>3, Zenon
<1>5. \E k \in S : \A j \in S : k <= j
  BY <1>4
<1> QED
  BY <1>5 DEF First

\* A block holds one message at most.
LEMMA OneMessagePerBlock ==
    ASSUME NEW block, NEW x \in Payload(block), NEW y \in Payload(block)
    PROVE  x = y
<1> DEFINE Data == {i \in DOMAIN block : block[i].data}
           Rank(i) == Cardinality({j \in Data : j <= i})
           N == Cardinality(Data)
<1>1. PICK i \in Data : TRUE
  BY DEF Payload
<1>2. block[i] = Line(x, Rank(i), N) /\ block[i] = Line(y, Rank(i), N)
  BY DEF Payload
<1> QED
  BY <1>2 DEF Line

\* What Extract is told by: the responses, and those with the request's id.
ResponsesIn(blocks) ==
    {i \in DOMAIN blocks : \E x \in Payload(blocks[i]) : ResponseShaped(x)}
OwnIn(blocks, n) ==
    {i \in ResponsesIn(blocks) : \E x \in Payload(blocks[i]) : x.id = n}
LEMMA ExtractIs ==
    ASSUME NEW blocks, NEW n
    PROVE  Extract(blocks, n) =
               CASE OwnIn(blocks, n) # {} ->
                        Payload(blocks[First(OwnIn(blocks, n))])
                 [] OwnIn(blocks, n) = {} /\ ResponsesIn(blocks) # {} ->
                        Payload(blocks[First(ResponsesIn(blocks))])
                 [] OTHER -> {}
BY DEF Extract, OwnIn, ResponsesIn

\* The first response with the request's id wins, and any of them will do if
\* all of them say the same.
LEMMA OwnAnswerWins ==
    ASSUME NEW blocks, NEW k \in Nat, DOMAIN blocks = 1..k,
           NEW n, NEW m, ResponseShaped(m), m.id = n,
           \E i \in 1..k : Payload(blocks[i]) = {m},
           \A i \in 1..k : \A x \in Payload(blocks[i]) :
               ResponseShaped(x) /\ x.id = n => Payload(blocks[i]) = {m}
    PROVE  Extract(blocks, n) = {m}
<1> DEFINE Own == OwnIn(blocks, n)
           Good == {i \in 1..k : Payload(blocks[i]) = {m}}
<1>2. Good # {} /\ Good \subseteq Own
  BY DEF OwnIn, ResponsesIn
<1>3. Own \subseteq Nat
  BY DEF OwnIn, ResponsesIn
<1> HIDE DEF Own, Good
<1>4. First(Own) \in Own
  BY <1>2, <1>3, FirstIsFirst
<1>5. Payload(blocks[First(Own)]) = {m}
  <2>1. PICK x \in Payload(blocks[First(Own)]) : ResponseShaped(x)
    BY <1>4 DEF Own, OwnIn, ResponsesIn
  <2>2. PICK y \in Payload(blocks[First(Own)]) : y.id = n
    BY <1>4 DEF Own, OwnIn
  <2>3. x = y
    BY OneMessagePerBlock
  <2>4. First(Own) \in 1..k
    BY <1>4 DEF Own, OwnIn, ResponsesIn
  <2> QED
    BY <2>1, <2>2, <2>3, <2>4
<1> QED
  BY <1>2, <1>4, <1>5, ExtractIs DEF Own

\* Without one the first response there is wins, likewise.
LEMMA OnlyAnswerWins ==
    ASSUME NEW blocks, NEW k \in Nat, DOMAIN blocks = 1..k,
           NEW n, NEW m, ResponseShaped(m), m.id # n,
           \E i \in 1..k : Payload(blocks[i]) = {m},
           \A i \in 1..k : \A x \in Payload(blocks[i]) :
               ResponseShaped(x) => Payload(blocks[i]) = {m}
    PROVE  Extract(blocks, n) = {m}
<1> DEFINE Responses == ResponsesIn(blocks)
<1>1. OwnIn(blocks, n) = {}
  <2> SUFFICES ASSUME NEW i \in OwnIn(blocks, n) PROVE FALSE
    OBVIOUS
  <2>1. i \in 1..k /\ Payload(blocks[i]) = {m}
    BY DEF OwnIn, ResponsesIn
  <2> QED
    BY <2>1 DEF OwnIn
<1>2. Responses # {} /\ Responses \subseteq Nat
  BY DEF ResponsesIn
<1> HIDE DEF Responses
<1>3. First(Responses) \in Responses
  BY <1>2, FirstIsFirst
<1>4. Payload(blocks[First(Responses)]) = {m}
  BY <1>3 DEF Responses, ResponsesIn
<1> QED
  BY <1>1, <1>2, <1>4, ExtractIs DEF Responses

\* An answer survives being split into data lines.
LEMMA AnswerBlockHoldsIt ==
    ASSUME NEW m, NEW b \in AnswerBlocks(m)
    PROVE  Payload(b) = {m}
<1>0. ASSUME NEW i, NEW j PROVE Line(m, i, j).data /\ Line(m, i, j).of = m
  BY DEF Line
<1>1. CASE b = <<Line(m, 1, 1)>>
  <2> DEFINE Data == {i \in DOMAIN b : b[i].data}
  <2>1. DOMAIN b = {1} /\ b[1] = Line(m, 1, 1)
    BY <1>1
  <2>2. Data = {1}
    BY <1>0, <2>1
  <2>3. {j \in Data : j <= 1} = {1}
    BY <2>2
  <2>4. Cardinality({1}) = 1
    BY FS_Singleton
  <2>5. Payload(b) = {x \in {b[i].of : i \in Data} :
                         \A i \in Data : b[i] = Line(x, Cardinality({j \in Data : j <= i}),
                                                     Cardinality(Data))}
    BY DEF Payload
  <2> HIDE DEF Data
  <2> QED
    BY <1>0, <2>1, <2>2, <2>3, <2>4, <2>5
<1>2. CASE b = <<[data |-> FALSE], Line(m, 1, 2), Line(m, 2, 2)>>
  <2> DEFINE Data == {i \in DOMAIN b : b[i].data}
  <2>1. /\ DOMAIN b = 1..3 /\ b[1] = [data |-> FALSE]
        /\ b[2] = Line(m, 1, 2) /\ b[3] = Line(m, 2, 2)
    BY <1>2
  <2>2. Data = {2, 3}
    <3>1. ~b[1].data /\ b[2].data /\ b[3].data
      BY <1>0, <2>1
    <3> QED
      BY <2>1, <3>1
  <2>3. {j \in Data : j <= 2} = {2} /\ {j \in Data : j <= 3} = {2, 3}
    BY <2>2
  <2>4. Cardinality({2}) = 1 /\ Cardinality({2, 3}) = 2
    <3>1. IsFiniteSet({2}) /\ Cardinality({2}) = 1
      BY FS_Singleton
    <3>2. Cardinality({2} \cup {3}) = 1 + 1
      BY <3>1, FS_AddElement
    <3>3. {2} \cup {3} = {2, 3}
      OBVIOUS
    <3> QED
      BY <3>1, <3>2, <3>3
  <2>5. Payload(b) = {x \in {b[i].of : i \in Data} :
                         \A i \in Data : b[i] = Line(x, Cardinality({j \in Data : j <= i}),
                                                     Cardinality(Data))}
    BY DEF Payload
  <2> HIDE DEF Data
  <2> QED
    BY <1>0, <2>1, <2>2, <2>3, <2>4, <2>5
<1> QED
  BY <1>1, <1>2 DEF AnswerBlocks

\* Nothing else in the stream of request n is a response to it, nor a response at
\* all if the answer has no id to be told by.
LEMMA OtherTrafficIsOther ==
    ASSUME NEW n \in Nat, NEW m, NEW b \in OtherTraffic(n, m), NEW x \in Payload(b),
           ResponseShaped(x)
    PROVE  x.id # n /\ m.id = n
<1> DEFINE Data == {i \in DOMAIN b : b[i].data}
           M(k, result) == [object |-> TRUE, id |-> k, result |-> result, error |-> "absent"]
<1>1. PICK i \in Data : /\ x = b[i].of
                       /\ b[i] = Line(x, Cardinality({j \in Data : j <= i}),
                                      Cardinality(Data))
  BY DEF Payload
<1>2. CASE b = <<[data |-> FALSE]>>
  BY <1>1, <1>2
<1>3. CASE b = <<Line(M(None, "absent"), 1, 1)>> \/ b = <<Line(M(n, "absent"), 1, 1)>>
  <2>1. i = 1
    BY <1>3
  <2>2. x = M(None, "absent") \/ x = M(n, "absent")
    <3> HIDE DEF M, Data
    <3>1. b[1].of \in {M(None, "absent"), M(n, "absent")}
      BY <1>3 DEF Line
    <3> QED
      BY <1>1, <2>1, <3>1
  <2> QED
    BY <2>2 DEF ResponseShaped
<1>4. CASE b = <<Line(M(n - 1, "object"), 1, 1)>> /\ m.id = n
  <2>1. i = 1
    BY <1>4
  <2>2. x = M(n - 1, "object")
    BY <1>1, <1>4, <2>1 DEF Line
  <2> QED
    BY <1>4, <2>2
<1>5. CASE b = <<Line(M(n, "object"), 2, 2)>>
  <2>1. i = 1 /\ Data = {1}
    BY <1>5 DEF Line
  <2>2. Cardinality({1}) = 1
    BY FS_Singleton
  <2>3. b[1].parts = 1
    <3> HIDE DEF Data
    <3>1. b[1] = Line(x, Cardinality({j \in Data : j <= 1}), 1)
      BY <1>1, <2>1, <2>2
    <3> QED
      BY <3>1 DEF Line
  <2>4. b[1].parts = 2
    BY <1>5 DEF Line
  <2> QED
    BY <2>3, <2>4
<1> QED
  BY <1>2, <1>3, <1>4, <1>5 DEF OtherTraffic

\* A stream holds the answer in one of its blocks, and in the others what a
\* stream may hold besides.
Holds(blocks, k, n, m) ==
    /\ k \in Nat /\ DOMAIN blocks = 1..k
    /\ \E i \in 1..k : blocks[i] \in AnswerBlocks(m)
    /\ \A i \in 1..k : blocks[i] \in AnswerBlocks(m) \cup OtherTraffic(n, m)

\* An answer with the request's id is found by it.
LEMMA NamedAnswerIsFound ==
    ASSUME NEW n \in Nat, NEW m, ResponseShaped(m), m.id = n,
           NEW blocks, NEW k, Holds(blocks, k, n, m)
    PROVE  Extract(blocks, n) = {m}
<1>1. \E i \in 1..k : Payload(blocks[i]) = {m}
  BY AnswerBlockHoldsIt DEF Holds
<1>2. ASSUME NEW i \in 1..k, NEW x \in Payload(blocks[i]), ResponseShaped(x), x.id = n
      PROVE  Payload(blocks[i]) = {m}
  BY <1>2, AnswerBlockHoldsIt, OtherTrafficIsOther DEF Holds
<1>3. k \in Nat /\ DOMAIN blocks = 1..k
  BY DEF Holds
<1> QED
  BY <1>1, <1>2, <1>3, OwnAnswerWins

\* An answer without one is the only response there is.
LEMMA NamelessAnswerIsFound ==
    ASSUME NEW n \in Nat, NEW m, ResponseShaped(m), m.id # n,
           NEW blocks, NEW k, Holds(blocks, k, n, m)
    PROVE  Extract(blocks, n) = {m}
<1>1. \E i \in 1..k : Payload(blocks[i]) = {m}
  BY AnswerBlockHoldsIt DEF Holds
<1>2. ASSUME NEW i \in 1..k, NEW x \in Payload(blocks[i]), ResponseShaped(x)
      PROVE  Payload(blocks[i]) = {m}
  BY <1>2, AnswerBlockHoldsIt, OtherTrafficIsOther DEF Holds
<1>3. k \in Nat /\ DOMAIN blocks = 1..k
  BY DEF Holds
<1> QED
  BY <1>1, <1>2, <1>3, OnlyAnswerWins

\* A stream of any length that holds the answer, and besides only what a stream
\* may hold, yields the answer.
THEOREM StreamIsUnderstood ==
    ASSUME NEW n \in Nat, NEW m, ResponseShaped(m),
           NEW blocks, NEW k, Holds(blocks, k, n, m)
    PROVE  Extract(blocks, n) = {m}
BY NamedAnswerIsFound, NamelessAnswerIsFound

\* What the server means is what the message says.
LEMMA AnswersSayWhatTheyMean ==
    ASSUME NEW n, NEW a \in Answers(n)
    PROVE  ResponseShaped(a.message) /\ Understood(a.meant, Unwrap(a.message))
<1> DEFINE M(result, error) == [object |-> TRUE, id |-> n, result |-> result, error |-> error]
           Nameless == [M("absent", "error") EXCEPT !.id = None]
           Fit(meant, m) == ResponseShaped(m) /\ Understood(meant, Unwrap(m))
<1>1. \A e \in {"absent", "null"} : Fit("returns", M("object", e))
  BY DEF ResponseShaped, Unwrap, Understood
<1>2. \A r \in {"absent", "other"} : Fit("fails", M(r, "error"))
  BY DEF ResponseShaped, Unwrap, Understood
<1>3. Fit("fails", M("other", "absent"))
  BY DEF ResponseShaped, Unwrap, Understood
<1>4. Fit("fails", M("absent", "other"))
  BY DEF ResponseShaped, Unwrap, Understood
<1>5. Fit("garbled", M("absent", "error with odd code"))
  BY DEF ResponseShaped, Unwrap, Understood
<1>6. Fit("fails", Nameless)
  BY DEF ResponseShaped, Unwrap, Understood
<1>7. a \in {[meant |-> "returns", message |-> M("object", e)] : e \in {"absent", "null"}}
           \cup {[meant |-> "fails", message |-> M(r, "error")] : r \in {"absent", "other"}}
           \cup {[meant |-> "fails", message |-> M("other", "absent")],
                 [meant |-> "fails", message |-> M("absent", "other")],
                 [meant |-> "fails", message |-> Nameless],
                 [meant |-> "garbled", message |-> M("absent", "error with odd code")]}
  BY DEF Answers
<1> HIDE DEF M, Nameless, Fit
<1>8. Fit(a.meant, a.message)
  <2>1. CASE a \in {[meant |-> "returns", message |-> M("object", e)] : e \in {"absent", "null"}}
    <3>1. PICK e \in {"absent", "null"} : a = [meant |-> "returns", message |-> M("object", e)]
      BY <2>1
    <3>2. a.meant = "returns" /\ a.message = M("object", e)
      BY <3>1
    <3> QED
      BY <1>1, <3>2
  <2>2. CASE a \in {[meant |-> "fails", message |-> M(r, "error")] : r \in {"absent", "other"}}
    <3>1. PICK r \in {"absent", "other"} : a = [meant |-> "fails", message |-> M(r, "error")]
      BY <2>2
    <3>2. a.meant = "fails" /\ a.message = M(r, "error")
      BY <3>1
    <3> QED
      BY <1>2, <3>2
  <2>3. CASE a = [meant |-> "fails", message |-> M("other", "absent")]
    <3>1. a.meant = "fails" /\ a.message = M("other", "absent")
      BY <2>3
    <3> QED
      BY <1>3, <3>1
  <2>4. CASE a = [meant |-> "fails", message |-> M("absent", "other")]
    <3>1. a.meant = "fails" /\ a.message = M("absent", "other")
      BY <2>4
    <3> QED
      BY <1>4, <3>1
  <2>5. CASE a = [meant |-> "garbled", message |-> M("absent", "error with odd code")]
    <3>1. a.meant = "garbled" /\ a.message = M("absent", "error with odd code")
      BY <2>5
    <3> QED
      BY <1>5, <3>1
  <2>6. CASE a = [meant |-> "fails", message |-> Nameless]
    <3>1. a.meant = "fails" /\ a.message = Nameless
      BY <2>6
    <3> QED
      BY <1>6, <3>1
  <2> QED
    BY <1>7, <2>1, <2>2, <2>3, <2>4, <2>5, <2>6
<1> QED
  BY <1>8 DEF Fit

\* The other traffic before and after the answer makes a stream of one to three
\* blocks, one of which is the answer.
LEMMA SurroundedStream ==
    ASSUME NEW n, NEW m, NEW b \in AnswerBlocks(m), NEW beside \in Beside(n, m) \X Beside(n, m)
    PROVE  \E k : Holds(Stream(b, beside).blocks, k, n, m)
<1> DEFINE before == beside[1]
           after == beside[2]
           s == before \o <<b>> \o after
           Fit == \E k \in Nat :
                     /\ DOMAIN s = 1..k
                     /\ \E i \in 1..k : s[i] \in AnswerBlocks(m)
                     /\ \A i \in 1..k : s[i] \in AnswerBlocks(m) \cup OtherTraffic(n, m)
<1>1. before \in Beside(n, m) /\ after \in Beside(n, m)
  OBVIOUS
<1> HIDE DEF before, after
<1>2. ASSUME before = <<>>, after = <<>>
      PROVE  Fit
  <2>1. DOMAIN s = 1..1 /\ s[1] = b
    BY <1>2
  <2> HIDE DEF s
  <2> QED
    BY <2>1
<1>3. ASSUME NEW t \in OtherTraffic(n, m), before = <<t>>, after = <<>>
      PROVE  Fit
  <2>1. DOMAIN s = 1..2 /\ s[1] = t /\ s[2] = b
    BY <1>3
  <2> HIDE DEF s
  <2> QED
    BY <2>1
<1>4. ASSUME NEW u \in OtherTraffic(n, m), before = <<>>, after = <<u>>
      PROVE  Fit
  <2>1. DOMAIN s = 1..2 /\ s[1] = b /\ s[2] = u
    BY <1>4
  <2> HIDE DEF s
  <2> QED
    BY <2>1
<1>5. ASSUME NEW t \in OtherTraffic(n, m), NEW u \in OtherTraffic(n, m),
             before = <<t>>, after = <<u>>
      PROVE  Fit
  <2>1. DOMAIN s = 1..3 /\ s[1] = t /\ s[2] = b /\ s[3] = u
    BY <1>5
  <2> HIDE DEF s
  <2> QED
    BY <2>1
<1> HIDE DEF Fit
<1>6. Fit
  BY <1>1, <1>2, <1>3, <1>4, <1>5 DEF Beside
<1> QED
  BY <1>6 DEF Stream, Fit, Holds, before, after

\* However an answer is framed, the call ends the way the server meant.
THEOREM OutcomeIsMeant ==
    ASSUME NEW n \in Nat, NEW a \in Answers(n), NEW response \in Framings(n, a.message)
    PROVE  Understood(a.meant, Outcome(response, n))
<1> DEFINE m == a.message
           text == response.text
           Streams == {Stream(b, beside) : b \in AnswerBlocks(m),
                                           beside \in Beside(n, m) \X Beside(n, m)}
<1>1. ResponseShaped(m) /\ Understood(a.meant, Unwrap(m))
  BY AnswersSayWhatTheyMean
<1>2. ASSUME Decode(response, n) = {m}
      PROVE  Understood(a.meant, Outcome(response, n))
  <2>1. (CHOOSE x \in {m} : TRUE) = m
    OBVIOUS
  <2> HIDE DEF m
  <2> QED
    BY <1>1, <1>2, <2>1 DEF Outcome
<1>3. \/ response \in [type: {"json", "other"}, text: {[json |-> {m}, blocks |-> <<>>]}]
      \/ response \in [type: {"sse", "other"}, text: Streams]
  BY DEF Framings
<1> HIDE DEF m, Streams
<1>4. CASE response \in [type: {"json", "other"}, text: {[json |-> {m}, blocks |-> <<>>]}]
  <2>1. response.type \in {"json", "other"} /\ response.text.json = {m}
    BY <1>4
  <2>2. Decode(response, n) = {m}
    BY <2>1 DEF Decode
  <2> QED
    BY <1>2, <2>2
<1>5. CASE response \in [type: {"sse", "other"}, text: Streams]
  <2>1. text \in Streams /\ response.type \in {"sse", "other"}
    BY <1>5
  <2>2. PICK b \in AnswerBlocks(m), beside \in Beside(n, m) \X Beside(n, m) :
            text = Stream(b, beside)
    BY <2>1 DEF Streams
  <2>3. text.json = {}
    BY <2>2 DEF Stream
  <2>4. PICK k : Holds(text.blocks, k, n, m)
    BY <2>2, SurroundedStream
  <2>5. Extract(text.blocks, n) = {m}
    BY <1>1, <2>4, StreamIsUnderstood
  <2>6. Decode(response, n) = {m}
    BY <2>1, <2>3, <2>5 DEF Decode
  <2> QED
    BY <1>2, <2>6
<1> QED
  BY <1>3, <1>4, <1>5
-----------------------------------------------------------------------------
(* One step of the session *)

\* What the server knows grows, or stays.
ServerGrows == /\ opened \subseteq opened' /\ opened' \subseteq Session
               /\ ready \subseteq ready' /\ ready' \subseteq opened'
               /\ UNCHANGED <<offered, restarted>>

\* Carrying a request out opens or readies a session.
LEMMA CarryingGrows ==
    ASSUME TypeOK, NEW q \in wire, Welcome(q), Carries(q)
    PROVE  ServerGrows
<1>1. CASE q.method = "initialize"
  BY <1>1 DEF TypeOK, Carries, ServerGrows
<1>2. CASE q.method = "notifications/initialized"
  <2>1. q.session \subseteq opened
    BY <1>2 DEF Welcome, TypeOK
  <2> QED
    BY <1>2, <2>1 DEF TypeOK, Carries, ServerGrows
<1>3. CASE q.method \notin {"initialize", "notifications/initialized"}
  BY <1>3 DEF TypeOK, Carries, ServerGrows
<1> QED
  BY <1>1, <1>2, <1>3

\* Refusing it changes nothing.
LEMMA KeepingGrows ==
    ASSUME TypeOK, UNCHANGED serverVars
    PROVE  ServerGrows
BY DEF TypeOK, serverVars, ServerGrows

\* The page that comes with a refusal ends the call as a failure.
LEMMA RefusalIsUnderstood ==
    ASSUME NEW n
    PROVE  Outcome(ErrorPage, n) = "fails"
<1>1. ErrorPage.type = "other" /\ ErrorPage.text.json = {} /\ ErrorPage.text.blocks = <<>>
  BY DEF ErrorPage
<1>2. Extract(<<>>, n) = {}
  BY DEF Extract
<1>3. Decode(ErrorPage, n) = {}
  BY <1>1, <1>2 DEF Decode
<1> QED
  BY <1>3 DEF Outcome

\* What any step has to show: the request it leaves under way, if it leaves one,
\* is the handshake's, or is made after it.
LEMMA StepKeepsIInv ==
    ASSUME IInv, ManagerStep \/ UNCHANGED managerVars, ServerGrows,
           id' \in Nat, session' \subseteq Session, faults' \in 0..MaxFaults,
           wire' = {} <=> call' = {},
           AnswersAreUnderstood', RequestFits', HandshakeComesFirst',
           \A q \in wire' : \/ q.method = "initialize"
                            \/ Welcome(q)'
                            \/ restarted'
                            \/ HandshakeOver',
           name' = name \/ AsksForWhatIsOffered'
    PROVE  IInv'
<1>1. ManagerTypeOK'
  <2>1. CASE ManagerStep
    BY <2>1, ManagerKeepsType DEF IInv, TypeOK
  <2>2. CASE UNCHANGED managerVars
    BY <2>2 DEF IInv, TypeOK, ManagerTypeOK, managerVars
  <2> QED
    BY <2>1, <2>2
<1>2. TypeOK'
  BY <1>1 DEF IInv, TypeOK, ServerGrows
<1>3. RequestsAreWelcome'
  <2> SUFFICES ASSUME NEW q \in wire' PROVE Welcome(q)' \/ restarted'
    BY DEF RequestsAreWelcome
  <2>1. CASE q.method = "initialize"
    BY <2>1 DEF Welcome
  <2>2. CASE HandshakeOver'
    <3>1. q.session = session' /\ session' # {} /\ (session' \subseteq ready' \/ restarted')
      BY <2>2 DEF RequestFits, HandshakeComesFirst
    <3> QED
      BY <3>1 DEF Welcome
  <2> QED
    BY <2>1, <2>2
<1>4. AsksForWhatIsOffered'
  BY DEF IInv, AsksForWhatIsOffered, ServerGrows
<1> QED
  BY <1>2, <1>3, <1>4 DEF IInv

\* The same for a step that leaves no request under way.
LEMMA SilenceKeepsIInv ==
    ASSUME IInv, ManagerStep, ServerGrows, AnswersAreUnderstood',
           session' \subseteq Session, faults' \in 0..MaxFaults,
           wire' = {}, call' = {}, UNCHANGED <<id, name, secret>>,
           start' \in {"new", "initialize"} => start' = start /\ loop' = loop,
           HandshakeOver' => HandshakeOver /\ session' = session
    PROVE  IInv'
<1>1. RequestFits'
  BY DEF RequestFits
<1>2. HandshakeComesFirst'
  BY DEF IInv, HandshakeComesFirst, ServerGrows
<1>3. id' \in Nat
  BY DEF IInv, TypeOK
<1> QED
  BY <1>1, <1>2, <1>3, StepKeepsIInv

\* How a call that failed or broke ends.
LEMMA EndsEffects ==
    ASSUME NEW outcome, Ends(outcome)
    PROVE  /\ ManagerStep
           /\ wire' = {} /\ call' = {} /\ UNCHANGED <<id, name, secret>>
           /\ start' = start \/ start' \in {"failed", "crashed"}
           /\ loop' # "none" => loop # "none"
           /\ start' = start \/ loop' = loop
<1>1. /\ StartFails \/ RefreshFails \/ UnsubscribeEnds
         \/ StartBreaks \/ RefreshBreaks \/ UnsubscribeBreaks
      /\ Silent
  BY DEF Ends, Fails, Breaks
<1>2. ManagerStep
  BY <1>1 DEF ManagerStep
<1>3. CASE StartFails \/ StartBreaks
  BY <1>1, <1>2, <1>3 DEF StartFails, StartBreaks, StartEnds, Silent
<1>4. CASE RefreshFails \/ RefreshBreaks
  BY <1>1, <1>2, <1>4 DEF RefreshFails, RefreshBreaks, LoopEnds, Silent
<1>5. CASE UnsubscribeEnds \/ UnsubscribeBreaks
  BY <1>1, <1>2, <1>5 DEF UnsubscribeEnds, UnsubscribeBreaks, StopEnds, Silent
<1> QED
  BY <1>1, <1>3, <1>4, <1>5

\* Such an end leaves no request under way.
LEMMA EndsKeepsIInv ==
    ASSUME IInv, NEW outcome, Ends(outcome), ServerGrows, AnswersAreUnderstood',
           session' = session \/ (start = "initialize" /\ session' \subseteq Session),
           faults' \in 0..MaxFaults
    PROVE  IInv'
<1>1. /\ ManagerStep
      /\ wire' = {} /\ call' = {} /\ UNCHANGED <<id, name, secret>>
      /\ start' = start \/ start' \in {"failed", "crashed"}
      /\ loop' # "none" => loop # "none"
      /\ start' = start \/ loop' = loop
  BY EndsEffects
<1>2. start \in {"new", "initialize"} => loop = "none" /\ secret = {} /\ loop' = "none"
  <2>1. start \in {"new", "initialize"} => loop = "none" /\ secret = {}
    BY DEF IInv, HandshakeComesFirst
  <2> QED
    BY <1>1, <2>1
<1>3. session' \subseteq Session
  BY DEF IInv, TypeOK
<1>4. start' \in {"new", "initialize"} => start' = start /\ loop' = loop
  BY <1>1, <1>2
<1>5. HandshakeOver' => HandshakeOver /\ session' = session
  BY <1>1, <1>2 DEF HandshakeOver
<1> QED
  BY <1>1, <1>3, <1>4, <1>5, SilenceKeepsIInv

\* The manager begins a call, or gives one up.
LEMMA CallerKeepsIInv ==
    ASSUME IInv, StartRuns \/ LoopRunsOn \/ TimerFires \/ StopBegins \/ ShutdownCancelsStart
    PROVE  IInv'
<1>0. TypeOK /\ RequestFits /\ HandshakeComesFirst /\ AnswersAreUnderstood /\ id \in Nat
  BY DEF IInv, TypeOK
<1>1. ServerGrows
  <2>1. UNCHANGED serverVars
    BY DEF StartRuns, LoopRunsOn, TimerFires, StopBegins, ShutdownCancelsStart, Around
  <2> QED
    BY <1>0, <2>1, KeepingGrows
<1>2. UNCHANGED <<session, name, heard, faults>>
  BY DEF StartRuns, LoopRunsOn, TimerFires, StopBegins, ShutdownCancelsStart, Around,
         clientVars
<1>3. session' \subseteq Session /\ faults' \in 0..MaxFaults /\ AnswersAreUnderstood'
  BY <1>0, <1>2 DEF TypeOK, AnswersAreUnderstood
<1>4. ready \subseteq ready' /\ restarted' = restarted
  BY <1>1 DEF ServerGrows
<1>5. CASE StartRuns
  <2>1. /\ ManagerStep /\ start = "new" /\ start' = "initialize" /\ call' # {}
        /\ UNCHANGED <<secret, loop, stop>>
    BY <1>5 DEF StartRuns, StartBegins, Issue, ManagerStep
  <2>2. id' \in Nat /\ wire' = {[method |-> "initialize", id |-> id + 1, session |-> session]}
    BY <1>0, <1>5 DEF StartRuns, Request
  <2>3. RequestFits'
    BY <1>0, <1>2, <2>1, <2>2 DEF RequestFits
  <2>4. HandshakeComesFirst'
    BY <1>0, <2>1 DEF HandshakeComesFirst, HandshakeOver
  <2>5. wire' # {} /\ \A q \in wire' : q.method = "initialize"
    BY <2>2
  <2> QED
    BY <1>1, <1>2, <1>3, <2>1, <2>2, <2>3, <2>4, <2>5, StepKeepsIInv
<1>6. CASE LoopRunsOn
  <2>1. /\ ManagerStep /\ loop = "top" /\ loop' = "sleep"
        /\ UNCHANGED <<secret, start, stop, call, wire, id>>
    BY <1>6 DEF LoopRunsOn, LoopSleeps, ManagerStep, clientVars
  <2>2. RequestFits'
    BY <1>0, <1>2, <2>1 DEF RequestFits
  <2>3. HandshakeOver /\ HandshakeOver'
    BY <2>1 DEF HandshakeOver
  <2>4. HandshakeComesFirst'
    BY <1>0, <1>2, <1>4, <2>1, <2>3 DEF HandshakeComesFirst
  <2>5. wire' = {} <=> call' = {}
    BY <1>0, <2>1 DEF TypeOK
  <2> QED
    BY <1>0, <1>1, <1>2, <1>3, <2>1, <2>2, <2>3, <2>4, <2>5, StepKeepsIInv
<1>7. CASE TimerFires
  <2>1. /\ ManagerStep /\ loop = "sleep" /\ loop' = "refresh" /\ call' # {}
        /\ UNCHANGED <<secret, start, stop>>
    BY <1>7 DEF TimerFires, RefreshBegins, Subscribe, ManagerStep
  <2>2. /\ id' \in Nat
        /\ wire' = {[method |-> "events/subscribe", id |-> id + 1, session |-> session]}
    BY <1>0, <1>7 DEF TimerFires, Request
  <2>3. RequestFits'
    BY <1>0, <1>2, <2>1, <2>2 DEF RequestFits
  <2>4. HandshakeOver /\ HandshakeOver'
    BY <2>1 DEF HandshakeOver
  <2>5. HandshakeComesFirst'
    BY <1>0, <1>2, <1>4, <2>1, <2>4 DEF HandshakeComesFirst
  <2>6. wire' # {}
    BY <2>2
  <2> QED
    BY <1>1, <1>2, <1>3, <2>1, <2>2, <2>3, <2>4, <2>5, <2>6, StepKeepsIInv
<1>8. CASE StopBegins
  <2>1. /\ StopWithoutLoop \/ StopCancelsLoop \/ StopMeetsDeadLoop
        /\ ~Starting /\ start # "new"
        /\ IF stop' = "unsubscribe" THEN Request("events/unsubscribe", session)
                                    ELSE wire' = {} /\ UNCHANGED id
    BY <1>8 DEF StopBegins
  <2>2. /\ ManagerStep /\ UNCHANGED <<secret, start>>
        /\ loop' # "none" => loop # "none"
        /\ \/ stop' = "unsubscribe" /\ call' # {} /\ secret # {}
           \/ stop' # "unsubscribe" /\ call' = {}
    <3>1. ManagerStep
      BY <2>1 DEF ManagerStep
    <3>2. CASE StopWithoutLoop
      BY <3>1, <3>2 DEF StopWithoutLoop, Unsubscribe, Issue
    <3>3. CASE StopCancelsLoop
      BY <3>1, <3>3 DEF StopCancelsLoop, Unsubscribe, Issue, LoopRuns
    <3>4. CASE StopMeetsDeadLoop
      BY <3>1, <3>4 DEF StopMeetsDeadLoop, StopEnds
    <3> QED
      BY <2>1, <3>2, <3>3, <3>4
  <2>3. start \notin {"new", "initialize", "list", "subscribe"}
    BY <2>1 DEF Starting
  <2>4. HandshakeOver' => HandshakeOver
    BY <2>2 DEF HandshakeOver
  <2>5. CASE stop' = "unsubscribe"
    <3>1. /\ id' \in Nat /\ wire' # {}
          /\ wire' = {[method |-> "events/unsubscribe", id |-> id + 1, session |-> session]}
      <4>1. Request("events/unsubscribe", session)
        BY <2>1, <2>5
      <4> QED
        BY <1>0, <4>1 DEF Request
    <3>2. RequestFits'
      BY <1>0, <1>2, <2>5, <3>1 DEF RequestFits
    <3>3. HandshakeOver'
      BY <2>2, <2>5 DEF HandshakeOver
    <3>4. HandshakeComesFirst'
      BY <1>0, <1>2, <1>4, <2>2, <2>3, <2>4 DEF HandshakeComesFirst
    <3> QED
      BY <1>1, <1>2, <1>3, <2>2, <2>5, <3>1, <3>2, <3>3, <3>4, StepKeepsIInv
  <2>6. CASE stop' # "unsubscribe"
    BY <1>1, <1>2, <1>3, <2>1, <2>2, <2>3, <2>4, <2>6, SilenceKeepsIInv
  <2> QED
    BY <2>5, <2>6
<1>9. CASE ShutdownCancelsStart
  <2>1. /\ ManagerStep /\ start' = "cancelled" /\ call' = {} /\ wire' = {}
        /\ UNCHANGED <<secret, loop, id>>
    BY <1>9 DEF ShutdownCancelsStart, StartCancelled, StartEnds, ManagerStep
  <2>2. HandshakeOver' => HandshakeOver /\ session' = session
    BY <1>2, <2>1 DEF HandshakeOver
  <2> QED
    BY <1>1, <1>2, <1>3, <2>1, <2>2, SilenceKeepsIInv
<1> QED
  BY <1>5, <1>6, <1>7, <1>8, <1>9

\* decide() finds only what is configured or can be delivered.
LEMMA DecideFindsSuitable ==
    ASSUME offered \in Offers, NEW e \in Decide(offered)
    PROVE  \E i \in DOMAIN offered :
               offered[i].name = e /\ (offered[i].webhook \/ e = Configured)
<1> DEFINE Suitable == {i \in DOMAIN offered : offered[i].name # None /\ offered[i].webhook}
<1>1. Suitable \subseteq Nat
  <2>1. offered \in Seq([name: Name \cup {None}, webhook: BOOLEAN])
    BY OfferAssumption
  <2> QED
    BY <2>1
<1>2. CASE \E i \in DOMAIN offered : offered[i].name = Configured
  BY <1>2 DEF Decide
<1>3. CASE ~ \E i \in DOMAIN offered : offered[i].name = Configured
  <2>1. e \in {offered[First(Suitable)].name : i \in Suitable}
    BY <1>3 DEF Decide
  <2>2. Suitable # {} /\ e = offered[First(Suitable)].name
    BY <2>1
  <2>3. First(Suitable) \in Suitable
    BY <1>1, <2>2, FirstIsFirst
  <2> QED
    BY <2>2, <2>3
<1> QED
  BY <1>2, <1>3

\* A result is passed on to the manager, which goes on to its next request or to
\* none.
LEMMA InitializeReturnsKeepsIInv ==
    ASSUME IInv, NEW q \in wire, q.method = "initialize", Carries(q), ServerGrows,
           Adopt(Session), InitializeAnswered, AnswersAreUnderstood', UNCHANGED faults
    PROVE  IInv'
<1>1. TypeOK /\ start = "initialize" /\ secret = {} /\ loop = "none" /\ call # {}
  BY DEF IInv, TypeOK, RequestFits, HandshakeComesFirst
<1>2. session' = Session /\ Session # {} /\ Session \subseteq opened'
  BY SessionAssumption DEF Adopt, Carries
<1>3. /\ wire' = {[method |-> "notifications/initialized", id |-> 0, session |-> session']}
      /\ UNCHANGED managerVars /\ UNCHANGED <<id, name>>
  BY DEF InitializeAnswered
<1>4. UNCHANGED <<start, secret, loop, stop, call>>
  BY <1>3 DEF managerVars
<1>5. RequestFits'
  BY <1>1, <1>3, <1>4 DEF RequestFits
<1>6. HandshakeComesFirst'
  BY <1>1, <1>4 DEF HandshakeComesFirst, HandshakeOver
<1>7. \A r \in wire' : Welcome(r)'
  BY <1>2, <1>3 DEF Welcome
<1>8. wire' # {} /\ call' # {}
  BY <1>1, <1>3, <1>4
<1>9. id' \in Nat /\ session' \subseteq Session /\ faults' \in 0..MaxFaults
  BY <1>1, <1>2, <1>3 DEF TypeOK
<1> QED
  BY <1>3, <1>5, <1>6, <1>7, <1>8, <1>9, StepKeepsIInv

\* The listing leads to a subscribe in the same session, for an event decide()
\* picked, or to none.
LEMMA ListReturnsKeepsIInv ==
    ASSUME IInv, ServerGrows, UNCHANGED <<session, faults>>, ListAnswered,
           AnswersAreUnderstood'
    PROVE  IInv'
<1>0. TypeOK /\ HandshakeComesFirst /\ session' \subseteq Session
      /\ faults' \in 0..MaxFaults
  BY DEF IInv, TypeOK
<1>1. ASSUME NEW s \in Secret, NEW e \in Decide(offered), ListReturns(s),
             name' = {e}, Request("events/subscribe", session')
      PROVE  IInv'
  <2>1. /\ ManagerStep /\ start = "list" /\ start' = "subscribe" /\ call' # {}
        /\ UNCHANGED <<loop, stop>>
    BY <1>1 DEF ListReturns, Subscribe, ManagerStep
  <2>2. wire' = {[method |-> "events/subscribe", id |-> id + 1, session |-> session']}
    BY <1>1 DEF Request
  <2>3. id' \in Nat /\ id + 1 \in Nat
    BY <1>0, <1>1 DEF Request, TypeOK
  <2>4. RequestFits'
    BY <2>1, <2>2, <2>3 DEF RequestFits
  <2>5. HandshakeOver /\ HandshakeOver'
    BY <2>1 DEF HandshakeOver
  <2>6. HandshakeComesFirst'
    BY <1>0, <2>1, <2>5 DEF HandshakeComesFirst, ServerGrows
  <2>7. AsksForWhatIsOffered'
    <3>1. offered \in Offers /\ offered' = offered
      BY <1>0 DEF TypeOK, ServerGrows
    <3> QED
      BY <1>1, <3>1, DecideFindsSuitable DEF AsksForWhatIsOffered
  <2>8. wire' # {}
    BY <2>2
  <2> QED
    BY <1>0, <2>1, <2>3, <2>4, <2>5, <2>6, <2>7, <2>8, StepKeepsIInv
<1>2. ASSUME ListOffersNothing, Silent
      PROVE  IInv'
  <2>1. /\ ManagerStep /\ start' = "failed" /\ call' = {} /\ wire' = {}
        /\ UNCHANGED <<secret, loop, id, name>>
    BY <1>2 DEF ListOffersNothing, StartEnds, Silent, ManagerStep
  <2>2. HandshakeOver' => HandshakeOver
    BY <2>1 DEF HandshakeOver
  <2> QED
    BY <1>0, <2>1, <2>2, SilenceKeepsIInv
<1> QED
  BY <1>1, <1>2 DEF ListAnswered

\* After a subscribe the loop may sleep; after an unsubscribe nothing is left.
LEMMA SubscribeReturnsKeepsIInv ==
    ASSUME IInv, ServerGrows, UNCHANGED <<session, faults>>,
           SubscribeAnswered \/ UnsubscribeAnswered, AnswersAreUnderstood'
    PROVE  IInv'
<1>0. session' \subseteq Session /\ faults' \in 0..MaxFaults
  BY DEF IInv, TypeOK
<1>1. Silent
  BY DEF SubscribeAnswered, UnsubscribeAnswered
<1>2. wire' = {} /\ UNCHANGED <<id, name>>
  BY <1>1 DEF Silent
<1>3. ASSUME NEW r \in Result, StartSubscribed(r)
      PROVE  IInv'
  <2>1. /\ ManagerStep /\ start = "subscribe" /\ start' = "returned" /\ call' = {}
        /\ secret' = secret
    BY <1>3 DEF StartSubscribed, Stores, ManagerStep
  <2>2. HandshakeOver
    BY <2>1 DEF HandshakeOver
  <2> QED
    BY <1>0, <1>2, <2>1, <2>2, SilenceKeepsIInv
<1>4. ASSUME NEW r \in Result, RefreshReturns(r)
      PROVE  IInv'
  <2>1. /\ ManagerStep /\ loop = "refresh" /\ loop' = "top" /\ call' = {}
        /\ UNCHANGED <<secret, start>>
    BY <1>4 DEF RefreshReturns, Stores, ManagerStep
  <2>2. HandshakeOver /\ start \notin {"new", "initialize"}
    BY <2>1 DEF HandshakeOver, IInv, HandshakeComesFirst
  <2> QED
    BY <1>0, <1>2, <2>1, <2>2, SilenceKeepsIInv
<1>5. ASSUME StartBreaks \/ RefreshBreaks
      PROVE  IInv'
  <2>1. Ends("breaks")
    BY <1>1, <1>5 DEF Ends, Breaks
  <2> QED
    BY <1>0, <2>1, EndsKeepsIInv
<1>6. ASSUME UnsubscribeEnds
      PROVE  IInv'
  <2>1. Ends("fails")
    BY <1>1, <1>6 DEF Ends, Fails
  <2> QED
    BY <1>0, <2>1, EndsKeepsIInv
<1> QED
  BY <1>3, <1>4, <1>5, <1>6 DEF SubscribeAnswered, UnsubscribeAnswered

\* Whatever the framing, the answer is passed on as it was meant.
LEMMA ServerAnswersKeepsIInv ==
    ASSUME IInv, NEW q \in wire, ServerAnswers(q)
    PROVE  IInv'
<1>0. /\ TypeOK /\ Welcome(q) /\ UNCHANGED faults /\ faults' \in 0..MaxFaults
      /\ q.method \in {"initialize", "events/list", "events/subscribe", "events/unsubscribe"}
      /\ q.id \in Nat
      /\ q.method = "initialize" => start = "initialize"
  BY DEF IInv, TypeOK, ServerAnswers, RequestFits
<1>a. PICK a \in Answers(q.id) : \E response \in Framings(q.id, a.message) :
          LET outcome == Outcome(response, q.id)
          IN  /\ heard' = {[meant |-> a.meant, got |-> outcome]}
              /\ IF a.meant = "returns" THEN Carries(q) ELSE UNCHANGED serverVars
              /\ Adopt(IF q.method = "initialize" THEN Session ELSE {})
              /\ IF outcome = "returns" THEN Returns(q.method) ELSE Ends(outcome)
  BY DEF ServerAnswers
<1>1. PICK response \in Framings(q.id, a.message) :
          LET outcome == Outcome(response, q.id)
          IN  /\ heard' = {[meant |-> a.meant, got |-> outcome]}
              /\ IF a.meant = "returns" THEN Carries(q) ELSE UNCHANGED serverVars
              /\ Adopt(IF q.method = "initialize" THEN Session ELSE {})
              /\ IF outcome = "returns" THEN Returns(q.method) ELSE Ends(outcome)
  BY <1>a
<1> DEFINE outcome == Outcome(response, q.id)
<1>2. Understood(a.meant, outcome) /\ (outcome = "returns" => a.meant = "returns")
  <2>1. Understood(a.meant, outcome)
    BY <1>0, <1>1, OutcomeIsMeant
  <2> QED
    BY <2>1 DEF Understood
<1> HIDE DEF outcome
<1>3. /\ heard' = {[meant |-> a.meant, got |-> outcome]}
      /\ IF a.meant = "returns" THEN Carries(q) ELSE UNCHANGED serverVars
      /\ Adopt(IF q.method = "initialize" THEN Session ELSE {})
      /\ IF outcome = "returns" THEN Returns(q.method) ELSE Ends(outcome)
  BY <1>1 DEF outcome
<1>4. AnswersAreUnderstood'
  <2>1. Understood(a.meant, outcome)' = Understood(a.meant, outcome)
    BY DEF Understood
  <2> QED
    BY <1>2, <1>3 DEF AnswersAreUnderstood, Understood
<1>5. ServerGrows
  BY <1>0, <1>3, CarryingGrows, KeepingGrows
<1>6. session' = IF q.method = "initialize" THEN Session ELSE session
  BY <1>3, SessionAssumption DEF Adopt
<1>7. CASE outcome = "returns"
  <2>1. Carries(q) /\ Returns(q.method)
    BY <1>2, <1>3, <1>7
  <2>2. CASE q.method = "initialize"
    <3>1. InitializeAnswered
      BY <2>1, <2>2 DEF Returns
    <3>2. Adopt(Session)
      BY <1>3, <2>2
    <3> QED
      BY <1>0, <1>4, <1>5, <2>1, <2>2, <3>1, <3>2, InitializeReturnsKeepsIInv
  <2>3. CASE q.method = "events/list"
    <3>1. ListAnswered
      BY <2>1, <2>3 DEF Returns
    <3> QED
      BY <1>0, <1>4, <1>5, <1>6, <2>3, <3>1, ListReturnsKeepsIInv
  <2>4. CASE q.method = "events/subscribe"
    <3>1. SubscribeAnswered
      BY <2>1, <2>4 DEF Returns
    <3> QED
      BY <1>0, <1>4, <1>5, <1>6, <2>4, <3>1, SubscribeReturnsKeepsIInv
  <2>5. CASE q.method = "events/unsubscribe"
    <3>1. UnsubscribeAnswered
      BY <2>1, <2>5 DEF Returns
    <3> QED
      BY <1>0, <1>4, <1>5, <1>6, <2>5, <3>1, SubscribeReturnsKeepsIInv
  <2> QED
    BY <1>0, <2>2, <2>3, <2>4, <2>5
<1>8. CASE outcome # "returns"
  <2>1. Ends(outcome)
    BY <1>3, <1>8
  <2>2. session' = session \/ (start = "initialize" /\ session' \subseteq Session)
    BY <1>0, <1>6
  <2> QED
    BY <1>0, <1>4, <1>5, <2>1, <2>2, EndsKeepsIInv
<1> QED
  BY <1>7, <1>8

\* A refusal is understood as one.
LEMMA RefusalKeepsIInv ==
    ASSUME IInv, NEW q \in wire, ServerRefuses(q)
    PROVE  IInv'
<1>1. heard' = {[meant |-> "fails", got |-> "fails"]} /\ Ends("fails")
  BY RefusalIsUnderstood DEF ServerRefuses
<1>2. AnswersAreUnderstood'
  BY <1>1 DEF AnswersAreUnderstood, Understood
<1>3. TypeOK /\ UNCHANGED serverVars /\ UNCHANGED <<session, faults>>
  BY DEF IInv, ServerRefuses
<1>4. ServerGrows /\ faults' \in 0..MaxFaults
  BY <1>3, KeepingGrows DEF TypeOK
<1> QED
  BY <1>1, <1>2, <1>3, <1>4, EndsKeepsIInv

\* The session is ready before the first request that needs it.
LEMMA NotificationKeepsIInv ==
    ASSUME IInv, NEW q \in wire, ServerTakesNotification(q)
    PROVE  IInv'
<1>0. /\ TypeOK /\ HandshakeComesFirst /\ start = "initialize" /\ q.session = session
      /\ q.method = "notifications/initialized"
  BY DEF IInv, RequestFits, ServerTakesNotification
<1>1. PICK accepted \in {Welcome(q), FALSE} :
          /\ IF accepted THEN Carries(q) ELSE UNCHANGED serverVars
          /\ Adopt({}) /\ NotificationAnswered(accepted)
  BY DEF ServerTakesNotification
<1>2. UNCHANGED <<session, name, heard, faults>>
  BY <1>1 DEF Adopt, ServerTakesNotification
<1>3. AnswersAreUnderstood' /\ session' \subseteq Session /\ faults' \in 0..MaxFaults
  BY <1>2 DEF IInv, AnswersAreUnderstood, TypeOK
<1>4. CASE accepted
  <2>1. Welcome(q) /\ Carries(q)
    BY <1>1, <1>4
  <2>2. InitializeReturns /\ Request("events/list", session')
    BY <1>1, <1>4 DEF NotificationAnswered
  <2>3. ServerGrows
    BY <1>0, <2>1, CarryingGrows
  <2>4. session # {} /\ session \subseteq ready'
    BY <1>0, <2>1 DEF Welcome, Carries
  <2>5. ManagerStep /\ start' = "list" /\ call' # {} /\ UNCHANGED <<secret, loop, stop>>
    BY <2>2 DEF InitializeReturns, Issue, ManagerStep
  <2>6. id' \in Nat /\ id + 1 \in Nat
    BY <1>0, <2>2 DEF Request, TypeOK
  <2>7. wire' = {[method |-> "events/list", id |-> id + 1, session |-> session']}
    BY <2>2 DEF Request
  <2>8. RequestFits'
    BY <2>5, <2>6, <2>7 DEF RequestFits
  <2>9. HandshakeOver' /\ HandshakeComesFirst'
    BY <1>2, <2>4, <2>5 DEF HandshakeOver, HandshakeComesFirst
  <2>10. wire' # {}
    BY <2>7
  <2> QED
    BY <1>2, <1>3, <2>3, <2>5, <2>6, <2>8, <2>9, <2>10, StepKeepsIInv
<1>5. CASE ~accepted
  <2>1. UNCHANGED serverVars /\ StartFails /\ wire' = {} /\ UNCHANGED id
    BY <1>1, <1>5 DEF NotificationAnswered
  <2>2. Ends("fails")
    BY <1>2, <2>1 DEF Ends, Fails, Silent
  <2> QED
    BY <1>0, <1>2, <1>3, <2>1, <2>2, KeepingGrows, EndsKeepsIInv
<1> QED
  BY <1>4, <1>5

\* A lost call may have been carried out; its caller takes it for failed.
LEMMA LossKeepsIInv ==
    ASSUME IInv, CallIsLost
    PROVE  IInv'
<1>1. TypeOK /\ Ends("fails") /\ UNCHANGED <<session, heard>>
  BY DEF IInv, CallIsLost
<1>2. AnswersAreUnderstood'
  BY <1>1 DEF IInv, AnswersAreUnderstood
<1>3. ServerGrows
  BY <1>1, CarryingGrows, KeepingGrows DEF CallIsLost
<1>4. faults' \in 0..MaxFaults
  BY <1>1, BoundAssumption DEF CallIsLost, FaultHappens, TypeOK
<1> QED
  BY <1>1, <1>2, <1>3, <1>4, EndsKeepsIInv

\* After a restart the server knows no session: the client's requests are then
\* excused, for good.
LEMMA RestartKeepsIInv ==
    ASSUME IInv, ServerRestarts
    PROVE  IInv'
<1>1. /\ opened' = {} /\ ready' = {} /\ restarted' = TRUE
      /\ UNCHANGED <<sub, secret, start, loop, stop, call>>
      /\ UNCHANGED <<id, session, wire, name>> /\ UNCHANGED <<offered, heard>>
  BY DEF ServerRestarts, managerVars, clientVars
<1>2. faults' \in 0..MaxFaults
  BY BoundAssumption DEF ServerRestarts, FaultHappens, IInv, TypeOK
<1>3. TypeOK'
  BY <1>1, <1>2 DEF IInv, TypeOK, ManagerTypeOK
<1>4. RequestFits'
  BY <1>1 DEF IInv, RequestFits
<1>5. HandshakeComesFirst'
  BY <1>1 DEF IInv, HandshakeComesFirst, HandshakeOver
<1>6. AnswersAreUnderstood' /\ RequestsAreWelcome' /\ AsksForWhatIsOffered'
  BY <1>1 DEF IInv, AnswersAreUnderstood, RequestsAreWelcome, AsksForWhatIsOffered
<1> QED
  BY <1>3, <1>4, <1>5, <1>6 DEF IInv

\* No request is under way.
LEMMA InitIInv == Init => IInv
<1> SUFFICES ASSUME Init PROVE IInv
  OBVIOUS
<1>1. TypeOK
  <2>1. ManagerTypeOK
    BY DEF Init, ManagerInit, ManagerTypeOK, TrackedType, StartPc, LoopPc, StopPc
  <2>2. faults \in 0..MaxFaults
    BY BoundAssumption DEF Init
  <2>3. wire = {} /\ call = {}
    BY DEF Init, ManagerInit
  <2> QED
    BY <2>1, <2>2, <2>3 DEF Init, TypeOK
<1>2. RequestFits /\ HandshakeComesFirst
  BY DEF Init, ManagerInit, RequestFits, HandshakeComesFirst, HandshakeOver
<1>3. AnswersAreUnderstood /\ RequestsAreWelcome /\ AsksForWhatIsOffered
  BY DEF Init, AnswersAreUnderstood, RequestsAreWelcome, AsksForWhatIsOffered
<1> QED
  BY <1>1, <1>2, <1>3 DEF IInv

\* One case per action.
LEMMA NextIInv == IInv /\ [Next]_vars => IInv'
<1> SUFFICES ASSUME IInv, [Next]_vars PROVE IInv'
  OBVIOUS
<1>1. CASE StartRuns \/ LoopRunsOn \/ TimerFires \/ StopBegins \/ ShutdownCancelsStart
  BY <1>1, CallerKeepsIInv
<1>2. ASSUME NEW q \in wire, ServerAnswers(q) PROVE IInv'
  BY <1>2, ServerAnswersKeepsIInv
<1>3. ASSUME NEW q \in wire, ServerRefuses(q) PROVE IInv'
  BY <1>3, RefusalKeepsIInv
<1>4. ASSUME NEW q \in wire, ServerTakesNotification(q) PROVE IInv'
  BY <1>4, NotificationKeepsIInv
<1>5. CASE CallIsLost
  BY <1>5, LossKeepsIInv
<1>6. CASE ServerRestarts
  BY <1>6, RestartKeepsIInv
<1>7. CASE UNCHANGED vars
  <2>1. /\ UNCHANGED <<sub, secret, start, loop, stop, call>>
        /\ UNCHANGED <<id, session, wire, name>>
        /\ UNCHANGED <<offered, opened, ready, restarted>>
        /\ UNCHANGED <<heard, faults>>
    BY <1>7 DEF vars, managerVars, clientVars, serverVars
  <2>2. TypeOK'
    BY <2>1 DEF IInv, TypeOK, ManagerTypeOK
  <2>3. RequestFits' /\ HandshakeComesFirst'
    BY <2>1 DEF IInv, RequestFits, HandshakeComesFirst, HandshakeOver
  <2>4. AnswersAreUnderstood' /\ RequestsAreWelcome' /\ AsksForWhatIsOffered'
    BY <2>1 DEF IInv, AnswersAreUnderstood, RequestsAreWelcome, AsksForWhatIsOffered,
                Welcome
  <2> QED
    BY <2>2, <2>3, <2>4 DEF IInv
<1> QED
  BY <1>1, <1>2, <1>3, <1>4, <1>5, <1>6, <1>7 DEF Next, Finished

\* Type correctness; among others, the manager waits for a call exactly while a
\* request is under way, so no response is ever left without its caller.
THEOREM SessionTypeOK == Spec => []TypeOK
<1>1. IInv => TypeOK
  BY DEF IInv
<1> QED
  BY InitIInv, NextIInv, <1>1, PTL DEF Spec

\* A call ends the way the server meant, however its answer is framed and
\* whatever else is in the stream.
THEOREM EveryAnswerIsUnderstood == Spec => []AnswersAreUnderstood
<1>1. IInv => AnswersAreUnderstood
  BY DEF IInv
<1> QED
  BY InitIInv, NextIInv, <1>1, PTL DEF Spec

\* A server that enforces sessions and the handshake refuses no request, unless
\* it restarted and forgot them.
THEOREM NoRequestIsRefused == Spec => []RequestsAreWelcome
<1>1. IInv => RequestsAreWelcome
  BY DEF IInv
<1> QED
  BY InitIInv, NextIInv, <1>1, PTL DEF Spec

\* The event type subscribed to is listed, and deliverable or configured.
THEOREM OnlyWhatIsOffered == Spec => []AsksForWhatIsOffered
<1>1. IInv => AsksForWhatIsOffered
  BY DEF IInv
<1> QED
  BY InitIInv, NextIInv, <1>1, PTL DEF Spec
=============================================================================
