----------------------------- MODULE XDSAckProofs -----------------------------
(***************************************************************************)
(* Proof that the mutator records only versions Envoy accepted from this   *)
(* agent and that Envoy never sees its stream closed for its nonce, on     *)
(* streams of both variants and across restarts of either side, for any    *)
(* resources, groups, interests and bounds.                                *)
(***************************************************************************)
EXTENDS XDS, TLAPS

IsSeq(s) == \E S : s \in Seq(S)

HistFields == {"ok", "okV", "bad", "badV", "dropped"}
ClientFields == {"wants", "has", "acked", "nonce", "refused"}
SotwFields == {"received", "acked", "names", "requested"}
SotwWatchFields == {"pc", "acked", "recv", "names", "expanded", "waitNext", "waitVersion",
                    "query", "res"}
DeltaFields == {"lastAcked", "ackedNames", "subs", "nonce", "resp", "deferred",
                "deferredForce", "streamNonce"}
DeltaWatchFields == {"pc", "acked", "subs", "names", "force", "waitNext", "waitVersion",
                     "empty", "res"}

-----------------------------------------------------------------------------
(* What both variants share: responses carry growing versions, none below  *)
(* what Envoy has accepted and none above the version of the cache.        *)

Ordered ==
    /\ DOMAIN hist = HistFields /\ DOMAIN client = ClientFields
    /\ version \in Nat \ {0} /\ hist.okV \in 0..version
    /\ IsSeq(requests) /\ IsSeq(responses)
    /\ ~up => requests = <<>> /\ responses = <<>> /\ watch = Nil
    /\ \A i \in 1..Len(responses) :
          /\ responses[i].version \in hist.okV..version /\ responses[i].version # 0
          /\ \A j \in 1..i : responses[j].version <= responses[i].version
    /\ watch # Nil /\ watch.pc = "out" =>
          /\ watch.res # Nil /\ watch.res.version # 0
          /\ watch.res.version \in hist.okV..version
          /\ \A i \in 1..Len(responses) : responses[i].version <= watch.res.version

-----------------------------------------------------------------------------
(* SotW: the client's version is one it accepted from this agent, or it is *)
(* from an earlier agent and everything this stream sends is newer.        *)

SotwTypes ==
    /\ client.acked \in Nat /\ client.nonce \in Nat /\ (up => client.nonce <= version)
    /\ \A i \in 1..Len(requests) : requests[i].acked \in Nat /\ requests[i].nonce \in 0..version
    /\ up => DOMAIN st = SotwFields
    /\ watch # Nil => /\ DOMAIN watch = SotwWatchFields
                      /\ watch.acked \in Nat /\ watch.recv \in 0..version

\* A client that has answered on this stream goes on doing so with newer versions.
Answering ==
    /\ up /\ st.received => client.nonce # 0 /\ \A i \in 1..Len(requests) : requests[i].nonce # 0
    /\ \A i \in 1..Len(requests) :
          /\ requests[i].nonce # 0 => /\ client.nonce # 0
                                      /\ requests[i].acked <= requests[i].nonce
                                      /\ \A j \in i..Len(requests) : requests[j].nonce # 0
    /\ up /\ client.nonce # 0 => client.acked <= client.nonce

Known ==
    /\ client.acked <= hist.okV
    /\ \A i \in 1..Len(requests) : requests[i].acked <= hist.okV

Foreign ==
    /\ client.acked > hist.okV
    /\ up /\ client.nonce # 0 => client.nonce > client.acked
    /\ \A i \in 1..Len(requests) :
          /\ requests[i].acked = client.acked
          /\ requests[i].nonce # 0 => requests[i].nonce > client.acked
    /\ \A i \in 1..Len(responses) : responses[i].version > client.acked
    /\ up => ~st.acked
    /\ watch # Nil =>
          /\ watch.acked = client.acked
          /\ watch.recv # 0 => watch.recv > client.acked
          /\ watch.pc # "top" => version > client.acked
          /\ watch.pc = "out" => watch.res.version > client.acked

SotwInv == SotwTypes /\ Answering /\ (Known \/ Foreign)

-----------------------------------------------------------------------------
(* Delta: one response is outstanding at a time, and the first answer to   *)
(* it that reaches the server is the one the client gave.                  *)

DeltaTypes ==
    /\ client.nonce \in Nat
    /\ \A i \in 1..Len(requests) : requests[i].nonce \in Nat
    /\ up => /\ DOMAIN st = DeltaFields /\ st.lastAcked \in 0..hist.okV
             /\ st.nonce \in Nat /\ st.streamNonce \in Nat
    /\ watch # Nil => DOMAIN watch = DeltaWatchFields

Nonces ==
    up => /\ st.nonce \in {0, st.streamNonce}
          /\ st.streamNonce # 0 => st.resp # Nil
          /\ client.nonce <= st.streamNonce
          /\ \A i \in 1..Len(requests) : requests[i].nonce <= st.streamNonce

Outstanding ==
    /\ watch # Nil => st.nonce = 0
    /\ responses # <<>> =>
          /\ Len(responses) = 1 /\ st.nonce # 0
          /\ responses[1].nonce = st.nonce /\ responses[1].version = st.resp.version
          /\ client.nonce # st.nonce
          /\ \A i \in 1..Len(requests) : requests[i].nonce # st.nonce

\* i is the first request in flight that answers the outstanding response
FirstAnswer(i) ==
    /\ requests[i].nonce = st.nonce
    /\ \A j \in 1..i-1 : requests[j].nonce # st.nonce

Answers ==
    up /\ st.nonce # 0 =>
        /\ st.resp.version \in Nat
        /\ client.nonce = st.nonce => \E i \in 1..Len(requests) : requests[i].nonce = st.nonce
        /\ \A i \in 1..Len(requests) :
              FirstAnswer(i) /\ ~requests[i].error => st.resp.version <= hist.okV

DeltaInv == DeltaTypes /\ Nonces /\ Outstanding /\ Answers

-----------------------------------------------------------------------------

AckInv ==
    /\ proto \in {"sotw", "delta"} /\ ackedVersion \in Int
    /\ Ordered
    /\ proto = "sotw" => SotwInv
    /\ proto = "delta" => DeltaInv
    /\ AckedReal

-----------------------------------------------------------------------------
(* Sequences.                                                              *)

LEMMA AppendFacts ==
  ASSUME NEW s, IsSeq(s), NEW x
  PROVE  /\ IsSeq(Append(s, x)) /\ Len(s) \in Nat /\ Len(Append(s, x)) = Len(s) + 1
         /\ \A i \in 1..Len(s) : Append(s, x)[i] = s[i]
         /\ Append(s, x)[Len(s) + 1] = x
<1>1. PICK S : s \in Seq(S)
  BY DEF IsSeq
<1>2. Append(s, x) \in Seq(S \cup {x})
  BY <1>1
<1> QED
  BY <1>1, <1>2 DEF IsSeq

LEMMA TailFacts ==
  ASSUME NEW s, IsSeq(s), s # <<>>
  PROVE  /\ IsSeq(Tail(s)) /\ Len(s) \in Nat \ {0} /\ Len(Tail(s)) = Len(s) - 1
         /\ Head(s) = s[1]
         /\ \A i \in 1..Len(s) - 1 : Tail(s)[i] = s[i + 1]
BY DEF IsSeq

LEMMA ShortFacts ==
  /\ IsSeq(<<>>) /\ Len(<<>>) = 0
  /\ \A x : IsSeq(<<x>>) /\ Len(<<x>>) = 1 /\ <<x>>[1] = x
<1>1. <<>> \in Seq({}) /\ Len(<<>>) = 0
  OBVIOUS
<1>2. \A x : <<x>> \in Seq({x}) /\ Len(<<x>>) = 1 /\ <<x>>[1] = x
  OBVIOUS
<1> QED
  BY <1>1, <1>2 DEF IsSeq

\* The parts of the invariant most steps need.
LEMMA Basics ==
  ASSUME Ordered
  PROVE  /\ version \in Nat \ {0} /\ version \in Nat
         /\ hist.okV \in Nat /\ hist.okV <= version
         /\ IsSeq(requests) /\ IsSeq(responses)
BY DEF Ordered

LEMMA DeltaBasics ==
  ASSUME DeltaInv, up
  PROVE  /\ client.nonce \in Nat /\ client.nonce <= st.streamNonce
         /\ st.nonce \in Nat /\ st.streamNonce \in Nat /\ st.nonce \in {0, st.streamNonce}
         /\ st.streamNonce # 0 => st.resp # Nil
         /\ st.lastAcked \in 0..hist.okV
         /\ \A i \in 1..Len(requests) :
               requests[i].nonce \in Nat /\ requests[i].nonce <= st.streamNonce
BY DEF DeltaInv, DeltaTypes, Nonces

-----------------------------------------------------------------------------
(* Steps beside the stream, and its end.                                   *)

LEMMA Grows ==
  ASSUME version \in Nat \ {0}, NEW n, NEW v, TX(n, v)
  PROVE  version' \in Nat \ {0} /\ version' >= version
BY DEF TX, cacheVars

LEMMA BesideKeeps ==
  ASSUME AckInv, UNCHANGED streamVars, version' \in Nat \ {0}, version' >= version,
         UNCHANGED ackedVersion, ackedNode' = "nil" => ackedNode = "nil"
  PROVE  AckInv'
<1> USE DEF streamVars
<1>1. Ordered'
  BY DEF AckInv, Ordered
<1>2. ASSUME proto = "sotw" PROVE SotwInv'
  <2>1. SotwInv
    BY <1>2 DEF AckInv
  <2>2. SotwTypes' /\ Answering'
    BY <2>1 DEF SotwInv, SotwTypes, Answering, AckInv, Ordered
  <2>3. Known => Known'
    BY DEF Known
  <2>4. Foreign => Foreign'
    BY <2>1 DEF Foreign, SotwInv, SotwTypes, AckInv, Ordered
  <2> QED
    BY <2>1, <2>2, <2>3, <2>4 DEF SotwInv
<1>3. ASSUME proto = "delta" PROVE DeltaInv'
  BY <1>3 DEF AckInv, DeltaInv, DeltaTypes, Nonces, Outstanding, Answers, FirstAnswer
<1>4. AckedReal'
  BY DEF AckInv, AckedReal, GateOpen
<1> QED
  BY <1>1, <1>2, <1>3, <1>4 DEF AckInv

\* The stream ends; what Envoy and the mutator know stays.
LEMMA ClosedKeeps ==
  ASSUME AckInv, Closed, UNCHANGED <<version, ackedVersion, ackedNode, proto, client, hist>>
  PROVE  AckInv'
<1> USE ShortFacts DEF Closed
<1>1. Ordered'
  BY DEF AckInv, Ordered
<1>2. ASSUME proto = "sotw" PROVE SotwInv'
  <2>1. SotwInv
    BY <1>2 DEF AckInv
  <2>2. SotwTypes' /\ Answering'
    BY <2>1 DEF SotwInv, SotwTypes, Answering
  <2>3. Known' \/ Foreign'
    BY <2>1 DEF Known, Foreign, SotwInv
  <2> QED
    BY <2>2, <2>3 DEF SotwInv
<1>3. ASSUME proto = "delta" PROVE DeltaInv'
  BY <1>3 DEF AckInv, DeltaInv, DeltaTypes, Nonces, Outstanding, Answers
<1>4. AckedReal'
  BY DEF AckInv, AckedReal, GateOpen
<1> QED
  BY <1>1, <1>2, <1>3, <1>4 DEF AckInv

\* The stream is down after a restart of either side.
LEMMA DownAfter ==
  ASSUME AckInv, IF up THEN Closed ELSE UNCHANGED <<up, requests, responses, st, watch>>
  PROVE  ~up' /\ requests' = <<>> /\ responses' = <<>> /\ watch' = Nil
BY DEF AckInv, Ordered, Closed

LEMMA ClientRestartKeeps ==
  ASSUME AckInv, ClientRestart
  PROVE  AckInv'
<1> USE ShortFacts
<1>1. ~up' /\ requests' = <<>> /\ responses' = <<>> /\ watch' = Nil
  BY DownAfter DEF ClientRestart
<1>2. /\ UNCHANGED <<version, ackedVersion, ackedNode, proto, hist>>
      /\ DOMAIN client' = ClientFields /\ client'.acked = 0 /\ client'.nonce = 0
  BY DEF ClientRestart, NewClient, cacheVars, mutVars, ClientFields
<1>3. Ordered'
  BY <1>1, <1>2 DEF AckInv, Ordered
<1>4. SotwInv'
  BY <1>1, <1>2 DEF SotwInv, SotwTypes, Answering, Known, AckInv, Ordered
<1>5. DeltaInv'
  BY <1>1, <1>2 DEF DeltaInv, DeltaTypes, Nonces, Outstanding, Answers
<1>6. AckedReal'
  BY <1>2 DEF AckInv, AckedReal, GateOpen
<1> QED
  BY <1>2, <1>3, <1>4, <1>5, <1>6 DEF AckInv

\* A new agent: what Envoy has is from an earlier one, unless it has nothing.
LEMMA AgentRestartKeeps ==
  ASSUME AckInv, AgentRestart
  PROVE  AckInv'
<1> USE ShortFacts
<1>1. ~up' /\ requests' = <<>> /\ responses' = <<>> /\ watch' = Nil
  BY DownAfter DEF AgentRestart
<1>2. /\ UNCHANGED <<proto, client>> /\ version' = 1
      /\ ackedVersion' = -1 /\ ackedNode' = "none"
      /\ DOMAIN hist' = HistFields /\ hist'.okV = 0
  BY DEF AgentRestart, NotSeen, NoHist, HistFields
<1>3. Ordered'
  BY <1>1, <1>2 DEF AckInv, Ordered
<1>4. ASSUME proto = "sotw" PROVE SotwInv'
  <2>1. client.acked \in Nat /\ client.nonce \in Nat
    BY <1>4 DEF AckInv, SotwInv, SotwTypes
  <2> QED
    BY <1>1, <1>2, <2>1 DEF SotwInv, SotwTypes, Answering, Known, Foreign
<1>5. ASSUME proto = "delta" PROVE DeltaInv'
  BY <1>1, <1>2, <1>5 DEF AckInv, DeltaInv, DeltaTypes, Nonces, Outstanding, Answers
<1>6. AckedReal'
  BY <1>2 DEF AckedReal, GateOpen
<1> QED
  BY <1>2, <1>3, <1>4, <1>5, <1>6 DEF AckInv

-----------------------------------------------------------------------------
(* SotW streams.                                                           *)

\* An ACK of a version Envoy accepted keeps the record of the mutator true.
LEMMA AckKeepsReal ==
  ASSUME AckInv, NEW ack \in Nat, ack <= hist.okV, NEW resp, NEW nack, NEW names,
         HandleAck(ack, resp, nack, names), hist'.okV = hist.okV
  PROVE  AckedReal' /\ ackedVersion' \in Int
<1>1. /\ ackedVersion' = IF ackedVersion < ack THEN ack ELSE ackedVersion
      /\ ackedNode' = IF ack > 0 /\ ackedVersion < ack THEN "nil" ELSE ackedNode
  BY DEF HandleAck
<1>2. ackedVersion \in Int /\ hist.okV \in Nat /\ AckedReal
  BY DEF AckInv, Ordered
<1>3. ackedVersion' \in Int /\ ackedVersion' <= hist'.okV
  BY <1>1, <1>2 DEF AckedReal
<1>4. GateOpen' => hist'.okV > 0
  BY <1>1, <1>2 DEF AckedReal, GateOpen
<1> QED
  BY <1>3, <1>4 DEF AckedReal

\* A nonce is at least the version the client acknowledges with it, and a client that
\* has answered goes on answering.
LEMMA SotwHead ==
  ASSUME AckInv, proto = "sotw", up, requests # <<>>
  PROVE  LET req == Head(requests)
             received == st.received \/ req.nonce > 0
         IN  /\ req = requests[1] /\ 1 \in 1..Len(requests)
             /\ req.acked \in Nat /\ req.nonce \in 0..version
             /\ received => req.nonce # 0 /\ req.acked <= req.nonce
<1>1. Head(requests) = requests[1] /\ Len(requests) \in Nat \ {0}
  BY TailFacts DEF AckInv, Ordered
<1> QED
  BY <1>1 DEF AckInv, SotwInv, SotwTypes, Answering, Ordered

LEMMA SotwRequestKeeps ==
  ASSUME AckInv, SotwRequest
  PROVE  AckInv'
<1> DEFINE req      == Head(requests)
           received == st.received \/ req.nonce > 0
           nack     == received /\ req.acked < req.nonce
           acked    == st.acked \/ (received /\ req.acked = req.nonce)
           expanded == Expands(st.requested, req.names)
<1>1. proto = "sotw" /\ up /\ requests # <<>>
  BY DEF SotwRequest
<1>2. SotwInv /\ Ordered
  BY <1>1 DEF AckInv
<1>3. /\ req = requests[1] /\ 1 \in 1..Len(requests)
      /\ req.acked \in Nat /\ req.nonce \in 0..version
      /\ received => req.nonce # 0 /\ req.acked <= req.nonce
  BY <1>1, SotwHead
<1>4. version \in Nat /\ hist.okV \in Nat
  BY <1>2 DEF Ordered
<1>5. ~(received /\ req.acked > req.nonce)
  BY <1>3, <1>4
<1>6. /\ IF received THEN HandleAck(AckVersion(acked, req), req.nonce, nack, st.names)
         ELSE UNCHANGED mutVars
      /\ requests' = Tail(requests)
      /\ st' = [st EXCEPT !.received = received, !.acked = acked, !.requested = req.names]
      /\ watch' = SotwWatch(req, expanded)
      /\ hist' = [hist EXCEPT !.dropped = IF watch # Nil /\ watch.expanded /\ ~expanded
                                          THEN Names ELSE @]
      /\ UNCHANGED <<up, responses, cacheVars, proto, client>>
  BY <1>5 DEF SotwRequest
<1> HIDE DEF req, received, nack, acked, expanded
<1>7. DOMAIN hist' = HistFields /\ hist'.okV = hist.okV
  BY <1>2, <1>6 DEF Ordered, HistFields
<1>8. DOMAIN st' = SotwFields /\ st'.received = received /\ st'.acked = acked
  BY <1>1, <1>2, <1>6 DEF SotwInv, SotwTypes, SotwFields
<1>9. /\ DOMAIN watch' = SotwWatchFields /\ watch'.acked = req.acked /\ watch'.recv = req.nonce
      /\ watch'.pc \in {"read", "top"} /\ (watch'.pc # "top" => req.nonce # 0)
  BY <1>6 DEF SotwWatch, SotwWatchFields
<1>10. /\ IsSeq(requests') /\ Len(requests) \in Nat \ {0} /\ Len(requests') = Len(requests) - 1
       /\ \A i \in 1..Len(requests') : i + 1 \in 1..Len(requests) /\ requests'[i] = requests[i + 1]
  BY <1>1, <1>2, <1>6, TailFacts DEF Ordered
<1>11. UNCHANGED <<version, up, responses, proto, client>>
  BY <1>6 DEF cacheVars
<1>12. Ordered'
  BY <1>1, <1>2, <1>7, <1>9, <1>10, <1>11 DEF Ordered
<1>13. SotwTypes'
  <2>1. \A i \in 1..Len(requests') : requests'[i].acked \in Nat /\ requests'[i].nonce \in 0..version
    BY <1>2, <1>10 DEF SotwInv, SotwTypes
  <2> QED
    BY <1>1, <1>2, <1>3, <1>8, <1>9, <1>11, <2>1 DEF SotwInv, SotwTypes
<1>14. Answering'
  <2>1. received => client.nonce # 0 /\ \A i \in 1..Len(requests) : requests[i].nonce # 0
    BY <1>2, <1>3 DEF SotwInv, Answering
  <2>2. ASSUME NEW i \in 1..Len(requests'), requests'[i].nonce # 0
        PROVE  /\ client.nonce # 0 /\ requests'[i].acked <= requests'[i].nonce
               /\ \A j \in i..Len(requests') : requests'[j].nonce # 0
    <3>1. i + 1 \in 1..Len(requests) /\ requests[i + 1].nonce # 0
      BY <1>10, <2>2
    <3>2. /\ client.nonce # 0 /\ requests[i + 1].acked <= requests[i + 1].nonce
          /\ \A j \in i + 1..Len(requests) : requests[j].nonce # 0
      BY <1>2, <3>1 DEF SotwInv, Answering
    <3>3. ASSUME NEW j \in i..Len(requests') PROVE requests'[j].nonce # 0
      <4>1. j \in 1..Len(requests') /\ j + 1 \in i + 1..Len(requests)
        BY <1>10
      <4> QED
        BY <1>10, <3>2, <4>1
    <3> QED
      BY <1>10, <3>2, <3>3
  <2> QED
    BY <1>2, <1>8, <1>10, <1>11, <2>1, <2>2 DEF SotwInv, Answering
<1>15. CASE Known
  <2>1. Known'
    BY <1>15, <1>7, <1>10, <1>11 DEF Known
  <2>2. AckVersion(acked, req) \in Nat /\ AckVersion(acked, req) <= hist.okV
    BY <1>3, <1>4, <1>15 DEF Known, AckVersion
  <2> QED
    BY <1>1, <1>6, <1>7, <1>11, <1>12, <1>13, <1>14, <2>1, <2>2, AckKeepsReal
    DEF AckInv, SotwInv, AckedReal, GateOpen, mutVars
<1>16. CASE Foreign
  <2>1. ~acked
    BY <1>1, <1>3, <1>4, <1>16 DEF Foreign, acked
  <2>2. Foreign'
    <3>1. /\ req.acked = client.acked /\ client.acked \in Nat
          /\ req.nonce # 0 => req.nonce > client.acked /\ version > client.acked
      BY <1>2, <1>3, <1>4, <1>16 DEF Foreign, SotwInv, SotwTypes
    <3>2. \A i \in 1..Len(requests') :
             /\ requests'[i].acked = client.acked
             /\ requests'[i].nonce # 0 => requests'[i].nonce > client.acked
      BY <1>10, <1>16 DEF Foreign
    <3> QED
      BY <1>7, <1>8, <1>9, <1>11, <1>16, <2>1, <3>1, <3>2 DEF Foreign
  <2>3. AckVersion(acked, req) \in Nat /\ AckVersion(acked, req) <= hist.okV
    BY <1>4, <2>1 DEF AckVersion
  <2> QED
    BY <1>1, <1>6, <1>7, <1>11, <1>12, <1>13, <1>14, <2>2, <2>3, AckKeepsReal
    DEF AckInv, SotwInv, AckedReal, GateOpen, mutVars
<1> QED
  BY <1>2, <1>15, <1>16 DEF SotwInv

\* A step of the watch that leaves the queues, the stream and the client alone.
LEMMA WatchKeeps ==
  ASSUME AckInv, watch # Nil, DOMAIN watch' = DOMAIN watch, version' \in Nat \ {0},
         version' >= version,
         UNCHANGED <<mutVars, proto, up, requests, responses, st, client, hist>>,
         proto = "sotw" =>
            /\ watch'.acked = watch.acked /\ watch'.recv = watch.recv
            /\ watch.pc # "top" => watch'.pc # "top"
            /\ watch.pc = "top" /\ watch.recv = 0 => version' > watch.acked,
         watch'.pc = "out" => watch'.res # Nil /\ watch'.res.version = version' /\ watch.pc # "top"
  PROVE  AckInv'
<1> USE DEF mutVars
<1>1. Ordered'
  BY DEF AckInv, Ordered
<1>2. ASSUME proto = "sotw" PROVE SotwInv'
  <2>1. SotwInv /\ version \in Nat
    BY <1>2 DEF AckInv, Ordered
  <2>2. SotwTypes'
    BY <1>2, <2>1 DEF SotwInv, SotwTypes
  <2>3. Answering'
    BY <2>1 DEF SotwInv, Answering
  <2>4. Known => Known'
    BY DEF Known
  <2>5. Foreign => Foreign'
    <3> SUFFICES ASSUME Foreign PROVE Foreign'
      OBVIOUS
    <3>1. client.acked \in Nat /\ watch.recv \in 0..version /\ watch.acked = client.acked
      BY <2>1 DEF SotwInv, SotwTypes, Foreign
    <3>2. /\ watch.pc # "top" => version > client.acked
          /\ watch.recv # 0 => watch.recv > client.acked
      BY DEF Foreign
    <3>3. version' > client.acked \/ (watch.pc = "top" /\ watch.recv = 0)
      BY <2>1, <3>1, <3>2
    <3>4. watch'.pc # "top" => version' > client.acked
      BY <1>2, <3>1, <3>3
    <3>5. watch'.pc = "out" => watch'.res.version > client.acked
      BY <3>4
    <3> QED
      BY <1>2, <3>1, <3>4, <3>5 DEF Foreign
  <2> QED
    BY <2>1, <2>2, <2>3, <2>4, <2>5 DEF SotwInv
<1>3. ASSUME proto = "delta" PROVE DeltaInv'
  BY <1>3 DEF AckInv, DeltaInv, DeltaTypes, Nonces, Outstanding, Answers, FirstAnswer
<1>4. AckedReal'
  BY DEF AckInv, AckedReal, GateOpen
<1> QED
  BY <1>1, <1>2, <1>3, <1>4 DEF AckInv

LEMMA WatchReadKeeps ==
  ASSUME AckInv, WatchRead
  PROVE  AckInv'
<1>1. watch # Nil /\ watch.pc = "read"
  BY DEF WatchRead
<1>2. /\ watch' = [watch EXCEPT !.pc = "get", !.waitNext = TRUE, !.waitVersion = version]
      /\ UNCHANGED <<cacheVars, mutVars, proto, up, requests, responses, st, client, hist>>
  BY DEF WatchRead
<1>3. DOMAIN watch = SotwWatchFields \/ DOMAIN watch = DeltaWatchFields
  BY <1>1 DEF AckInv, SotwInv, SotwTypes, DeltaInv, DeltaTypes
<1>4. DOMAIN watch' = DOMAIN watch /\ watch'.pc = "get"
  BY <1>2, <1>3 DEF SotwWatchFields, DeltaWatchFields
<1>5. proto = "sotw" => watch'.acked = watch.acked /\ watch'.recv = watch.recv
  BY <1>1, <1>2 DEF AckInv, SotwInv, SotwTypes, SotwWatchFields
<1>6. version \in Nat \ {0} /\ version' = version
  BY <1>2 DEF AckInv, Ordered, cacheVars
<1> QED
  BY <1>1, <1>2, <1>4, <1>5, <1>6, WatchKeeps

\* Before its first round the watch of a client that is ahead moves the cache past it.
LEMMA SotwTopKeeps ==
  ASSUME AckInv, SotwTop
  PROVE  AckInv'
<1> DEFINE ensured == IF watch.recv = 0 THEN watch.acked + 1
                      ELSE IF watch.expanded THEN watch.recv + 1 ELSE 0
<1>1. /\ watch # Nil /\ proto = "sotw" /\ watch.pc = "top" /\ EnsureVersion(ensured)
      /\ watch' = [watch EXCEPT !.pc = "read"]
      /\ UNCHANGED <<mutVars, proto, up, requests, responses, st, client, hist>>
  BY DEF SotwTop
<1>2. /\ DOMAIN watch = SotwWatchFields /\ watch.acked \in Nat /\ watch.recv \in Nat
      /\ version \in Nat \ {0}
  BY <1>1 DEF AckInv, Ordered, SotwInv, SotwTypes
<1>3. /\ DOMAIN watch' = DOMAIN watch /\ watch'.pc = "read"
      /\ watch'.acked = watch.acked /\ watch'.recv = watch.recv
  BY <1>1, <1>2 DEF SotwWatchFields
<1>4. ensured \in Nat
  BY <1>2
<1>5. version' \in Nat \ {0} /\ version' >= version /\ version' >= ensured
  BY <1>1, <1>2, <1>4 DEF EnsureVersion, cacheVars
<1>6. watch.recv = 0 => version' > watch.acked
  BY <1>2, <1>5
<1> HIDE DEF ensured
<1> QED
  BY <1>1, <1>3, <1>5, <1>6, WatchKeeps

LEMMA SotwGetKeeps ==
  ASSUME AckInv, SotwGet
  PROVE  AckInv'
<1> DEFINE res == GetResources(watch.query, watch.names)
<1>1. /\ watch # Nil /\ proto = "sotw" /\ watch.pc = "get"
      /\ watch' = [watch EXCEPT !.pc = IF res = Nil THEN "read" ELSE "out", !.res = res]
      /\ UNCHANGED <<cacheVars, mutVars, proto, up, requests, responses, st, client, hist>>
  BY DEF SotwGet
<1>2. res # Nil => res.version = version
  BY DEF GetResources, Response
<1> HIDE DEF res
<1>3. DOMAIN watch = SotwWatchFields /\ version \in Nat \ {0}
  BY <1>1 DEF AckInv, Ordered, SotwInv, SotwTypes
<1>4. /\ DOMAIN watch' = DOMAIN watch /\ watch'.pc \in {"read", "out"}
      /\ watch'.acked = watch.acked /\ watch'.recv = watch.recv
      /\ watch'.pc = "out" => watch'.res = res /\ res # Nil
  BY <1>1, <1>3 DEF SotwWatchFields
<1> QED
  BY <1>1, <1>2, <1>3, <1>4, WatchKeeps DEF cacheVars

LEMMA SotwSendKeeps ==
  ASSUME AckInv, SotwSend
  PROVE  AckInv'
<1>1. /\ up /\ proto = "sotw" /\ watch # Nil /\ watch.pc = "out"
      /\ responses' = Append(responses, watch.res)
      /\ st' = [st EXCEPT !.names = DOMAIN watch.res.res] /\ watch' = Nil
      /\ hist' = [hist EXCEPT !.dropped = {}]
      /\ UNCHANGED <<version, ackedVersion, ackedNode, proto, up, requests, client>>
  BY DEF SotwSend, cacheVars, mutVars
<1>2. Ordered /\ SotwInv
  BY <1>1 DEF AckInv
<1>3. DOMAIN hist' = HistFields /\ hist'.okV = hist.okV
  BY <1>1, <1>2 DEF Ordered, HistFields
<1>4. DOMAIN st' = SotwFields /\ st'.received = st.received /\ st'.acked = st.acked
  BY <1>1, <1>2 DEF SotwInv, SotwTypes, SotwFields
<1>5. /\ IsSeq(responses') /\ Len(responses) \in Nat /\ Len(responses') = Len(responses) + 1
      /\ \A i \in 1..Len(responses) : responses'[i] = responses[i]
      /\ responses'[Len(responses) + 1] = watch.res
  BY <1>1, <1>2, AppendFacts DEF Ordered
<1>6. Ordered'
  <2>1. ASSUME NEW i \in 1..Len(responses')
        PROVE  /\ responses'[i].version \in hist.okV..version /\ responses'[i].version # 0
               /\ \A j \in 1..i : responses'[j].version <= responses'[i].version
    <3>1. CASE i \in 1..Len(responses)
      <4>1. /\ responses[i].version \in hist.okV..version /\ responses[i].version # 0
            /\ \A j \in 1..i : responses[j].version <= responses[i].version
        BY <1>2, <3>1 DEF Ordered
      <4>2. \A j \in 1..i : responses'[j] = responses[j]
        BY <1>5, <3>1
      <4> QED
        BY <1>5, <3>1, <4>1, <4>2
    <3>2. CASE i = Len(responses) + 1
      BY <1>1, <1>2, <1>5, <3>2 DEF Ordered
    <3> QED
      BY <1>5, <3>1, <3>2
  <2> QED
    BY <1>1, <1>2, <1>3, <1>5, <2>1 DEF Ordered
<1>7. SotwTypes' /\ Answering'
  BY <1>1, <1>2, <1>4 DEF SotwInv, SotwTypes, Answering
<1>8. Known => Known'
  BY <1>1, <1>3 DEF Known
<1>9. Foreign => Foreign'
  <2> SUFFICES ASSUME Foreign PROVE Foreign'
    OBVIOUS
  <2>1. \A i \in 1..Len(responses') : responses'[i].version > client.acked
    BY <1>1, <1>5 DEF Foreign
  <2> QED
    BY <1>1, <1>3, <1>4, <2>1 DEF Foreign
<1> QED
  BY <1>1, <1>2, <1>3, <1>6, <1>7, <1>8, <1>9 DEF AckInv, SotwInv, AckedReal, GateOpen

\* A new stream starts with the client's version and no nonce.
LEMMA SotwConnectKeeps ==
  ASSUME AckInv, SotwConnect
  PROVE  AckInv'
<1> DEFINE cl == [client EXCEPT !.nonce = 0, !.refused = {}]
<1>1. /\ ~up /\ proto = "sotw" /\ up' = TRUE /\ st' = NewSotw
      /\ client' = cl /\ requests' = <<SotwAsk(cl)>>
      /\ hist' = [hist EXCEPT !.dropped = {}]
      /\ UNCHANGED <<version, ackedVersion, ackedNode, proto, responses, watch>>
  BY DEF SotwConnect, cacheVars, mutVars
<1>2. Ordered /\ SotwInv
  BY <1>1 DEF AckInv
<1>3. DOMAIN hist' = HistFields /\ hist'.okV = hist.okV
  BY <1>1, <1>2 DEF Ordered, HistFields
<1>4. DOMAIN client' = ClientFields /\ client'.acked = client.acked /\ client'.nonce = 0
  BY <1>1, <1>2 DEF Ordered, ClientFields
<1>5. SotwAsk(cl).acked = client'.acked /\ SotwAsk(cl).nonce = 0
  BY <1>1, <1>4 DEF SotwAsk
<1>6. IsSeq(requests') /\ Len(requests') = 1 /\ requests'[1] = SotwAsk(cl)
  BY <1>1, ShortFacts
<1> HIDE DEF cl
<1>7. responses = <<>> /\ watch = Nil /\ Len(responses) = 0
  BY <1>1, <1>2, ShortFacts DEF Ordered
<1>8. DOMAIN st' = SotwFields /\ st'.received = FALSE /\ st'.acked = FALSE
  BY <1>1 DEF NewSotw, SotwFields
<1>9. Ordered'
  BY <1>1, <1>2, <1>3, <1>4, <1>6, <1>7 DEF Ordered
<1>10. SotwTypes' /\ Answering'
  BY <1>1, <1>2, <1>4, <1>5, <1>6, <1>7, <1>8 DEF SotwInv, SotwTypes, Answering, Ordered
<1>11. Known' \/ Foreign'
  BY <1>1, <1>2, <1>3, <1>4, <1>5, <1>6, <1>7, <1>8 DEF SotwInv, Known, Foreign
<1> QED
  BY <1>1, <1>2, <1>3, <1>9, <1>10, <1>11 DEF AckInv, SotwInv, AckedReal, GateOpen

\* The client sends its version and nonce, after an answer or a change of interest.
LEMMA AskFacts ==
  ASSUME Ordered, SotwTypes, Answering, up, UNCHANGED <<version, up, st, watch>>,
         requests' = Append(requests, SotwAsk(client')),
         client'.acked \in Nat, client'.nonce \in 0..version,
         client.nonce # 0 => client'.nonce # 0,
         client'.nonce # 0 => client'.acked <= client'.nonce
  PROVE  /\ SotwTypes' /\ Answering' /\ IsSeq(requests')
         /\ \A i \in 1..Len(requests') :
               \/ i \in 1..Len(requests) /\ requests'[i] = requests[i]
               \/ requests'[i].acked = client'.acked /\ requests'[i].nonce = client'.nonce
<1> DEFINE new == SotwAsk(client')
<1>1. new.acked = client'.acked /\ new.nonce = client'.nonce
  BY DEF SotwAsk
<1>2. /\ IsSeq(requests') /\ Len(requests) \in Nat /\ Len(requests') = Len(requests) + 1
      /\ \A i \in 1..Len(requests) : requests'[i] = requests[i]
      /\ requests'[Len(requests) + 1] = new
  BY AppendFacts DEF Ordered
<1> HIDE DEF new
<1>3. \A i \in 1..Len(requests') : i \in 1..Len(requests) \/ i = Len(requests) + 1
  BY <1>2
<1>4. SotwTypes'
  <2>1. \A i \in 1..Len(requests') : requests'[i].acked \in Nat /\ requests'[i].nonce \in 0..version
    BY <1>1, <1>2, <1>3 DEF SotwTypes
  <2> QED
    BY <2>1 DEF SotwTypes, Ordered
<1>5. ASSUME NEW i \in 1..Len(requests'), requests'[i].nonce # 0
      PROVE  client'.nonce # 0 /\ requests'[i].acked <= requests'[i].nonce
  BY <1>1, <1>2, <1>3, <1>5 DEF Answering
<1>6. ASSUME NEW i \in 1..Len(requests'), requests'[i].nonce # 0, NEW j \in i..Len(requests')
      PROVE  requests'[j].nonce # 0
  <2>1. CASE j = Len(requests) + 1
    BY <1>1, <1>2, <1>5, <1>6, <2>1
  <2>2. CASE j \in 1..Len(requests)
    <3>1. i \in 1..Len(requests) /\ j \in i..Len(requests) /\ requests[i].nonce # 0
      BY <1>2, <1>6, <2>2
    <3> QED
      BY <1>2, <2>2, <3>1 DEF Answering
  <2> QED
    BY <1>2, <2>1, <2>2
<1>7. st.received => \A i \in 1..Len(requests') : requests'[i].nonce # 0
  BY <1>1, <1>2, <1>3 DEF Answering
<1>8. Answering'
  BY <1>5, <1>6, <1>7 DEF Answering
<1> QED
  BY <1>1, <1>2, <1>3, <1>4, <1>8

\* The oldest response leaves its queue; what the client accepts becomes the newest
\* accepted version.
LEMMA ReceiveOrdered ==
  ASSUME Ordered, up, responses # <<>>, responses' = Tail(responses),
         DOMAIN client' = ClientFields, DOMAIN hist' = HistFields,
         hist'.okV \in {hist.okV, Head(responses).version},
         UNCHANGED <<version, up, watch>>, IsSeq(requests')
  PROVE  /\ Ordered'
         /\ Head(responses) = responses[1] /\ 1 \in 1..Len(responses)
         /\ Head(responses).version \in hist.okV..version /\ Head(responses).version # 0
         /\ Len(responses') = Len(responses) - 1
         /\ \A i \in 1..Len(responses') : i + 1 \in 1..Len(responses) /\ responses'[i] = responses[i + 1]
<1>1. /\ IsSeq(responses') /\ Len(responses) \in Nat \ {0} /\ Len(responses') = Len(responses) - 1
      /\ Head(responses) = responses[1] /\ 1 \in 1..Len(responses)
      /\ \A i \in 1..Len(responses') : i + 1 \in 1..Len(responses) /\ responses'[i] = responses[i + 1]
  BY TailFacts DEF Ordered
<1> DEFINE v == Head(responses).version
<1>2. v \in hist.okV..version /\ v # 0 /\ version \in Nat \ {0} /\ hist.okV \in 0..version
  BY <1>1 DEF Ordered
<1>3. \A i \in 1..Len(responses) : responses[i].version \in v..version
  BY <1>1, <1>2 DEF Ordered
<1> HIDE DEF v
<1>4. hist'.okV \in {hist.okV, v}
  BY DEF v
<1>5. ASSUME NEW i \in 1..Len(responses')
      PROVE  /\ responses'[i].version \in hist'.okV..version /\ responses'[i].version # 0
             /\ \A j \in 1..i : responses'[j].version <= responses'[i].version
  <2>1. i + 1 \in 1..Len(responses) /\ responses'[i] = responses[i + 1]
    BY <1>1
  <2>2. responses'[i].version \in hist'.okV..version /\ responses'[i].version # 0
    BY <1>2, <1>3, <1>4, <2>1
  <2>3. ASSUME NEW j \in 1..i PROVE responses'[j].version <= responses'[i].version
    <3>1. j \in 1..Len(responses') /\ j + 1 \in 1..i + 1
      BY <1>1
    <3> QED
      BY <1>1, <2>1, <3>1 DEF Ordered
  <2> QED
    BY <2>2, <2>3
<1>6. watch # Nil /\ watch.pc = "out" =>
        /\ watch.res # Nil /\ watch.res.version # 0
        /\ watch.res.version \in hist'.okV..version
        /\ \A i \in 1..Len(responses') : responses'[i].version <= watch.res.version
  <2> SUFFICES ASSUME watch # Nil, watch.pc = "out"
               PROVE  /\ watch.res # Nil /\ watch.res.version # 0
                      /\ watch.res.version \in hist'.okV..version
                      /\ \A i \in 1..Len(responses') : responses'[i].version <= watch.res.version
    OBVIOUS
  <2>1. /\ watch.res # Nil /\ watch.res.version # 0 /\ watch.res.version \in hist.okV..version
        /\ \A i \in 1..Len(responses) : responses[i].version <= watch.res.version
    BY DEF Ordered
  <2>2. v <= watch.res.version
    BY <1>1, <2>1 DEF v
  <2> QED
    BY <1>1, <1>2, <1>4, <2>1, <2>2
<1>7. Ordered'
  <2>1. version \in Nat \ {0} /\ hist'.okV \in 0..version
    BY <1>2, <1>4
  <2> QED
    BY <1>1, <1>5, <1>6, <2>1 DEF Ordered
<1> QED
  BY <1>1, <1>2, <1>7 DEF v

LEMMA SotwReceiveKeeps ==
  ASSUME AckInv, NEW accept \in BOOLEAN, SotwReceive(accept)
  PROVE  AckInv'
<1> DEFINE v == Head(responses).version
<1>1. /\ up /\ proto = "sotw" /\ responses # <<>> /\ responses' = Tail(responses)
      /\ requests' = Append(requests, SotwAsk(client'))
      /\ UNCHANGED <<version, ackedVersion, ackedNode, proto, up, st, watch>>
  BY DEF SotwReceive, cacheVars, mutVars
<1>2. Ordered /\ SotwInv
  BY <1>1 DEF AckInv
<1>3. /\ DOMAIN client' = ClientFields /\ client'.nonce = v
      /\ client'.acked = IF accept THEN v ELSE client.acked
  BY <1>2 DEF SotwReceive, Ordered, ClientFields
<1>4. /\ DOMAIN hist' = HistFields
      /\ hist'.okV = IF accept THEN v ELSE hist.okV
  BY <1>2 DEF SotwReceive, Ordered, HistFields, Accepted, Refused
<1>5. IsSeq(requests')
  BY <1>1, <1>2, AppendFacts DEF Ordered
<1>6. /\ Ordered' /\ v = responses[1].version /\ 1 \in 1..Len(responses)
      /\ v \in hist.okV..version /\ v # 0
      /\ \A i \in 1..Len(responses') : i + 1 \in 1..Len(responses) /\ responses'[i] = responses[i + 1]
  BY <1>1, <1>2, <1>3, <1>4, <1>5, ReceiveOrdered
<1> HIDE DEF v
<1>7. version \in Nat /\ hist.okV \in Nat /\ client.acked \in Nat /\ v \in Nat
  <2>1. client.acked \in Nat
    BY <1>2 DEF SotwInv, SotwTypes
  <2>2. version \in Nat /\ hist.okV \in Nat
    BY <1>2, Basics
  <2> QED
    BY <1>6, <2>1, <2>2
<1>8. client.acked <= v
  BY <1>2, <1>6, <1>7 DEF SotwInv, Known, Foreign
<1>9. /\ SotwTypes' /\ Answering'
      /\ \A i \in 1..Len(requests') :
            \/ i \in 1..Len(requests) /\ requests'[i] = requests[i]
            \/ requests'[i].acked = client'.acked /\ requests'[i].nonce = client'.nonce
  <2>1. /\ client'.acked \in Nat /\ client'.nonce \in 0..version /\ client'.nonce # 0
        /\ client'.acked <= client'.nonce
    BY <1>3, <1>6, <1>7, <1>8
  <2> QED
    BY <1>1, <1>2, <2>1, AskFacts DEF SotwInv
<1>10. CASE accept
  <2>1. \A i \in 1..Len(requests) : requests[i].acked <= v
    <3>1. Known => \A i \in 1..Len(requests) : requests[i].acked <= v
      BY <1>2, <1>6, <1>7 DEF Known, SotwInv, SotwTypes
    <3> QED
      BY <1>2, <1>8, <3>1 DEF SotwInv, Foreign
  <2>2. Known'
    BY <1>3, <1>4, <1>7, <1>9, <1>10, <2>1 DEF Known
  <2>3. AckedReal'
    <3>1. AckedReal /\ ackedVersion \in Int
      BY DEF AckInv
    <3>2. hist'.okV = v /\ v \in Nat /\ v >= hist.okV /\ v > 0 /\ hist.okV \in Nat
      BY <1>4, <1>6, <1>7, <1>10
    <3> QED
      BY <1>1, <3>1, <3>2 DEF AckedReal, GateOpen
  <2> QED
    BY <1>1, <1>6, <1>9, <2>2, <2>3 DEF AckInv, SotwInv
<1>11. CASE ~accept
  <2>1. Known => Known'
    BY <1>3, <1>4, <1>9, <1>11 DEF Known
  <2>2. Foreign => Foreign'
    <3> SUFFICES ASSUME Foreign PROVE Foreign'
      OBVIOUS
    <3>1. v > client.acked /\ client'.acked = client.acked
      BY <1>3, <1>6, <1>11 DEF Foreign
    <3>2. \A i \in 1..Len(requests') :
            /\ requests'[i].acked = client.acked
            /\ requests'[i].nonce # 0 => requests'[i].nonce > client.acked
      BY <1>3, <1>9, <3>1 DEF Foreign
    <3>3. \A i \in 1..Len(responses') : responses'[i].version > client.acked
      BY <1>6 DEF Foreign
    <3> QED
      BY <1>1, <1>3, <1>4, <1>11, <3>1, <3>2, <3>3 DEF Foreign
  <2>3. AckedReal'
    BY <1>1, <1>4, <1>11 DEF AckInv, AckedReal, GateOpen
  <2> QED
    BY <1>1, <1>2, <1>6, <1>9, <2>1, <2>2, <2>3 DEF AckInv, SotwInv
<1> QED
  BY <1>10, <1>11

LEMMA SotwChangeKeeps ==
  ASSUME AckInv, NEW ns, SotwChange(ns)
  PROVE  AckInv'
<1>1. /\ up /\ proto = "sotw" /\ requests' = Append(requests, SotwAsk(client'))
      /\ UNCHANGED <<version, ackedVersion, ackedNode, proto, up, responses, st, watch, hist>>
  BY DEF SotwChange, cacheVars, mutVars
<1>2. Ordered /\ SotwInv
  BY <1>1 DEF AckInv
<1>3. DOMAIN client' = ClientFields /\ client'.nonce = client.nonce /\ client'.acked = client.acked
  BY <1>2 DEF SotwChange, Ordered, ClientFields
<1>4. /\ client'.acked \in Nat /\ client'.nonce \in 0..version
      /\ client'.nonce # 0 => client'.acked <= client'.nonce
  <2>1. client.acked \in Nat /\ client.nonce \in Nat /\ client.nonce <= version
    BY <1>1, <1>2 DEF SotwInv, SotwTypes
  <2>2. client.nonce # 0 => client.acked <= client.nonce
    BY <1>1, <1>2 DEF SotwInv, Answering
  <2> QED
    BY <1>2, <1>3, <2>1, <2>2, Basics
<1>5. /\ SotwTypes' /\ Answering' /\ IsSeq(requests')
      /\ \A i \in 1..Len(requests') :
            \/ i \in 1..Len(requests) /\ requests'[i] = requests[i]
            \/ requests'[i].acked = client'.acked /\ requests'[i].nonce = client'.nonce
  BY <1>1, <1>2, <1>3, <1>4, AskFacts DEF SotwInv
<1>6. Ordered'
  BY <1>1, <1>2, <1>3, <1>5 DEF Ordered
<1>7. Known => Known'
  BY <1>1, <1>3, <1>5 DEF Known
<1>8. Foreign => Foreign'
  <2> SUFFICES ASSUME Foreign PROVE Foreign'
    OBVIOUS
  <2>1. client.nonce # 0 => client.nonce > client.acked
    BY <1>1 DEF Foreign
  <2> QED
    BY <1>1, <1>3, <1>5, <2>1 DEF Foreign
<1> QED
  BY <1>1, <1>2, <1>6, <1>5, <1>7, <1>8 DEF AckInv, SotwInv, AckedReal, GateOpen

-----------------------------------------------------------------------------
(* Delta streams.                                                          *)

\* A request takes the outstanding response off the stream state if it answers it, and
\* its version becomes the acknowledged one if the request carries no error.
LEMMA DeltaRequestKeeps ==
  ASSUME AckInv, DeltaRequest
  PROVE  AckInv'
<1> DEFINE req     == Head(requests)
           answers == req.nonce # 0 /\ req.nonce = st.nonce
           accepts == answers /\ ~req.error
           last    == IF accepts THEN st.resp.version ELSE st.lastAcked
           bad     == BadNonce(req.nonce) \/ (req.nonce = 0 /\ req.error)
<1>1. proto = "delta" /\ up /\ requests # <<>>
  BY DEF DeltaRequest
<1>2. DeltaInv /\ Ordered
  BY <1>1 DEF AckInv
<1>3. CASE bad
  <2>1. Closed /\ UNCHANGED <<mutVars, hist, cacheVars, proto, client>>
    BY <1>3 DEF DeltaRequest
  <2> QED
    BY <2>1, ClosedKeeps DEF mutVars, cacheVars
<1>4. CASE ~bad
  <2>1. DOMAIN st = DeltaFields
    BY <1>1, <1>2 DEF DeltaInv, DeltaTypes
  <2> DEFINE initial   == st.resp = Nil /\ st.nonce = 0 /\ watch = Nil
             sub       == IF initial /\ req.sub = {} THEN {Star} ELSE req.sub
             subs      == st.subs \cup sub
             resolve   == {n \in req.unsub \cap subs : n # Star /\ Star \in subs \ req.unsub}
             known     == (st.ackedNames \ ((req.unsub \cap subs) \ resolve))
                          \cup (IF initial /\ req.nonce = 0 THEN req.initial ELSE {})
             names     == IF accepts THEN (known \ st.resp.gone) \cup DOMAIN st.resp.res ELSE known
             s         == [st EXCEPT !.subs = subs \ req.unsub, !.deferredForce = @ \ req.unsub,
                                     !.nonce = IF answers THEN 0 ELSE @, !.lastAcked = last,
                                     !.ackedNames = names]
             immediate == req.sub # {} \/ req.unsub # {}
             force     == ((sub \ req.unsub) \cup resolve) \cup s.deferredForce
             now       == immediate \/ s.deferred \/ s.deferredForce # {}
             version0  == IF answers THEN st.resp.version ELSE 0
  <2>2. /\ IF answers THEN HandleAck(s.lastAcked, st.resp.version, req.error, DOMAIN st.resp.res)
           ELSE UNCHANGED mutVars
        /\ requests' = Tail(requests)
        /\ IF s.nonce # 0
           THEN /\ st' = [s EXCEPT !.deferred = @ \/ immediate, !.deferredForce = force]
                /\ watch' = Nil
           ELSE /\ st' = [s EXCEPT !.deferred = FALSE, !.deferredForce = {}]
                /\ watch' = DeltaWatch(s, version0, now, force, initial)
        /\ hist' = [hist EXCEPT !.dropped =
                      (IF watch = Nil THEN @ ELSE @ \cup Forced(watch.force)) \ Forced(force)]
        /\ UNCHANGED <<up, responses, cacheVars, proto, client>>
    BY <1>4 DEF DeltaRequest
  <2> HIDE DEF initial, subs, resolve, known, names, immediate, force, now, version0, last, answers
  <2>3. /\ DOMAIN s = DeltaFields /\ s.nonce = IF answers THEN 0 ELSE st.nonce
        /\ s.lastAcked = last /\ s.resp = st.resp /\ s.streamNonce = st.streamNonce
    BY <2>1 DEF DeltaFields
  <2> HIDE DEF s
  <2>4. /\ DOMAIN st' = DeltaFields /\ st'.nonce = s.nonce
        /\ st'.lastAcked = s.lastAcked /\ st'.resp = s.resp /\ st'.streamNonce = s.streamNonce
    BY <2>2, <2>3 DEF DeltaFields
  <2>5. watch' # Nil => DOMAIN watch' = DeltaWatchFields /\ watch'.pc = "read" /\ st'.nonce = 0
    BY <2>2, <2>4 DEF DeltaWatch, DeltaWatchFields
  <2> USE DEF answers, last
  <2>6. DOMAIN hist' = HistFields /\ hist'.okV = hist.okV
    BY <1>2, <2>2 DEF Ordered, HistFields
  <2>7. /\ IsSeq(requests') /\ Len(requests) \in Nat \ {0} /\ Len(requests') = Len(requests) - 1
        /\ req = requests[1] /\ 1 \in 1..Len(requests)
        /\ \A i \in 1..Len(requests') : i + 1 \in 1..Len(requests) /\ requests'[i] = requests[i + 1]
    BY <1>1, <1>2, <2>2, TailFacts DEF Ordered
  <2> HIDE DEF req
  <2>8. hist.okV \in Nat /\ last \in Nat /\ last <= hist.okV
    <3>1. CASE accepts
      <4>1. requests[1].nonce = st.nonce /\ st.nonce # 0 /\ ~requests[1].error
        BY <2>7, <3>1
      <4>2. FirstAnswer(1)
        BY <4>1 DEF FirstAnswer
      <4>3. st.resp.version \in Nat /\ st.resp.version <= hist.okV
        BY <1>1, <1>2, <2>7, <4>1, <4>2 DEF DeltaInv, Answers
      <4> QED
        BY <1>2, <3>1, <4>3, Basics
    <3>2. CASE ~accepts
      <4>1. st.lastAcked \in 0..hist.okV /\ hist.okV \in Nat
        BY <1>1, <1>2, Basics, DeltaBasics
      <4> QED
        BY <3>2, <4>1
    <3> QED
      BY <3>1, <3>2
  <2> HIDE DEF last
  <2>9. Ordered'
    BY <1>1, <1>2, <2>2, <2>5, <2>6, <2>7 DEF Ordered, cacheVars
  <2>10. DeltaTypes'
    <3>1. \A i \in 1..Len(requests') : requests'[i].nonce \in Nat
      BY <1>2, <2>7 DEF DeltaInv, DeltaTypes
    <3> QED
      BY <1>1, <1>2, <2>2, <2>3, <2>4, <2>5, <2>6, <2>8, <3>1 DEF DeltaInv, DeltaTypes
  <2>11. Nonces'
    BY <1>1, <1>2, <2>2, <2>3, <2>4, <2>7 DEF DeltaInv, Nonces
  <2>12. Outstanding'
    <3>1. responses # <<>> => ~answers
      BY <1>2, <2>7 DEF DeltaInv, Outstanding
    <3> QED
      BY <1>2, <2>2, <2>3, <2>4, <2>5, <2>7, <3>1 DEF DeltaInv, Outstanding
  <2>13. Answers'
    <3> SUFFICES ASSUME st'.nonce # 0 PROVE Answers'
      BY DEF Answers
    <3>1. ~answers /\ st'.nonce = st.nonce /\ requests[1].nonce # st.nonce
      BY <2>3, <2>4, <2>7
    <3>2. Answers
      BY <1>2 DEF DeltaInv
    <3>3. client.nonce = st.nonce => \E i \in 1..Len(requests') : requests'[i].nonce = st.nonce
      <4> SUFFICES ASSUME client.nonce = st.nonce
                   PROVE  \E i \in 1..Len(requests') : requests'[i].nonce = st.nonce
        OBVIOUS
      <4>1. PICK i \in 1..Len(requests) : requests[i].nonce = st.nonce
        BY <1>1, <3>1, <3>2 DEF Answers
      <4>2. i - 1 \in 1..Len(requests') /\ (i - 1) + 1 = i
        BY <2>7, <3>1, <4>1
      <4> QED
        BY <2>7, <4>1, <4>2
    <3>4. ASSUME NEW i \in 1..Len(requests'), FirstAnswer(i)', ~requests'[i].error
          PROVE  st.resp.version <= hist.okV
      <4>1. i + 1 \in 1..Len(requests) /\ requests'[i] = requests[i + 1]
        BY <2>7
      <4>2. \A j \in 1..(i + 1) - 1 : requests[j].nonce # st.nonce
        <5> SUFFICES ASSUME NEW j \in 1..i, j # 1 PROVE requests[j].nonce # st.nonce
          BY <3>1
        <5>1. j - 1 \in 1..i - 1 /\ j - 1 \in 1..Len(requests') /\ (j - 1) + 1 = j
          BY <2>7
        <5> QED
          BY <2>7, <3>1, <3>4, <5>1 DEF FirstAnswer
      <4>3. FirstAnswer(i + 1)
        BY <3>1, <3>4, <4>1, <4>2 DEF FirstAnswer
      <4> QED
        BY <1>1, <3>1, <3>2, <3>4, <4>1, <4>3 DEF Answers
    <3> QED
      BY <1>1, <2>2, <2>3, <2>4, <2>6, <3>1, <3>2, <3>3, <3>4 DEF Answers
  <2>14. AckedReal' /\ ackedVersion' \in Int
    BY <2>2, <2>3, <2>6, <2>8, AckKeepsReal DEF AckInv, AckedReal, GateOpen, mutVars
  <2> QED
    BY <1>1, <2>2, <2>9, <2>10, <2>11, <2>12, <2>13, <2>14 DEF AckInv, DeltaInv
<1> QED
  BY <1>3, <1>4

LEMMA DeltaGetKeeps ==
  ASSUME AckInv, DeltaGet
  PROVE  AckInv'
<1> DEFINE res == GetDeltaResources(watch.acked, watch.subs, watch.names, watch.force, watch.empty)
<1>1. /\ watch # Nil /\ proto = "delta" /\ watch.pc = "get"
      /\ watch' = [watch EXCEPT !.pc = IF res = Nil THEN "read" ELSE "out", !.res = res,
                                !.force = IF res = Nil THEN {} ELSE @]
      /\ UNCHANGED <<cacheVars, mutVars, proto, up, requests, responses, st, client, hist>>
  BY DEF DeltaGet
<1>2. res # Nil => res.version = version
  BY DEF GetDeltaResources, Response
<1> HIDE DEF res
<1>3. DOMAIN watch = DeltaWatchFields /\ version \in Nat \ {0}
  BY <1>1 DEF AckInv, Ordered, DeltaInv, DeltaTypes
<1>4. /\ DOMAIN watch' = DOMAIN watch
      /\ watch'.pc = "out" => watch'.res = res /\ res # Nil
  BY <1>1, <1>3 DEF DeltaWatchFields
<1> QED
  BY <1>1, <1>2, <1>3, <1>4, WatchKeeps DEF cacheVars

\* A response is sent only when none is outstanding, under a nonce nobody has used.
LEMMA DeltaSendKeeps ==
  ASSUME AckInv, DeltaSend
  PROVE  AckInv'
<1> DEFINE nonce == st.streamNonce + 1
           new   == [nonce |-> nonce, version |-> watch.res.version,
                     res |-> watch.res.res, gone |-> watch.res.gone]
<1>1. /\ up /\ proto = "delta" /\ watch # Nil /\ watch.pc = "out"
      /\ responses' = Append(responses, new)
      /\ st' = [st EXCEPT !.streamNonce = nonce, !.nonce = nonce, !.resp = watch.res]
      /\ watch' = Nil
      /\ hist' = [hist EXCEPT !.dropped = @ \ (DOMAIN watch.res.res \cup watch.res.gone)]
      /\ UNCHANGED <<version, ackedVersion, ackedNode, proto, up, requests, client>>
  BY DEF DeltaSend, cacheVars, mutVars
<1>2. Ordered /\ DeltaInv
  BY <1>1 DEF AckInv
<1>3. /\ DOMAIN st' = DeltaFields /\ st'.streamNonce = nonce /\ st'.nonce = nonce
      /\ st'.resp = watch.res /\ st'.lastAcked = st.lastAcked
  BY <1>1, <1>2 DEF DeltaInv, DeltaTypes, DeltaFields
<1>4. st.streamNonce \in Nat /\ nonce \in Nat /\ nonce > st.streamNonce /\ nonce # 0
  BY <1>1, <1>2 DEF DeltaInv, DeltaTypes
<1>5. /\ watch.res # Nil /\ watch.res.version # 0 /\ watch.res.version \in hist.okV..version
      /\ version \in Nat /\ hist.okV \in Nat
  BY <1>1, <1>2 DEF Ordered
<1>6. responses = <<>>
  BY <1>1, <1>2 DEF DeltaInv, Outstanding
<1>7. new.nonce = nonce /\ new.version = watch.res.version
  OBVIOUS
<1> HIDE DEF new
<1>8. IsSeq(responses') /\ Len(responses') = 1 /\ responses'[1] = new
  BY <1>1, <1>6, AppendFacts, ShortFacts
<1>9. \A i \in 1..Len(requests) : requests[i].nonce # nonce /\ requests[i].nonce <= nonce
  BY <1>1, <1>2, <1>4 DEF DeltaInv, DeltaTypes, Nonces
<1>10. client.nonce # nonce /\ client.nonce <= nonce
  BY <1>1, <1>2, <1>4 DEF DeltaInv, DeltaTypes, Nonces
<1> HIDE DEF nonce
<1>11. Ordered'
  BY <1>1, <1>2, <1>5, <1>7, <1>8 DEF Ordered
<1>12. DeltaTypes'
  BY <1>1, <1>2, <1>3, <1>4 DEF DeltaInv, DeltaTypes
<1>13. Nonces'
  BY <1>1, <1>3, <1>5, <1>9, <1>10 DEF Nonces
<1>14. Outstanding'
  BY <1>1, <1>3, <1>4, <1>7, <1>8, <1>9, <1>10 DEF Outstanding
<1>15. Answers'
  BY <1>1, <1>3, <1>5, <1>9, <1>10 DEF Answers, FirstAnswer
<1> QED
  BY <1>1, <1>11, <1>12, <1>13, <1>14, <1>15 DEF AckInv, DeltaInv, AckedReal, GateOpen

LEMMA DeltaConnectKeeps ==
  ASSUME AckInv, DeltaConnect
  PROVE  AckInv'
<1> DEFINE new == [nonce |-> 0, error |-> FALSE,
                   sub |-> IF client.wants = {Star} THEN {} ELSE client.wants, unsub |-> {},
                   initial |-> {n \in Names : client.has[n] # NoValue}]
<1>1. /\ ~up /\ proto = "delta" /\ up' = TRUE /\ st' = NewDelta
      /\ client' = [client EXCEPT !.nonce = 0, !.refused = {}] /\ requests' = <<new>>
      /\ hist' = [hist EXCEPT !.dropped = {}]
      /\ UNCHANGED <<version, ackedVersion, ackedNode, proto, responses, watch>>
  BY DEF DeltaConnect, cacheVars, mutVars
<1>2. Ordered /\ DeltaInv
  BY <1>1 DEF AckInv
<1>3. DOMAIN hist' = HistFields /\ hist'.okV = hist.okV
  BY <1>1, <1>2 DEF Ordered, HistFields
<1>4. DOMAIN client' = ClientFields /\ client'.nonce = 0
  BY <1>1, <1>2 DEF Ordered, ClientFields
<1>5. new.nonce = 0 /\ new.error = FALSE
  OBVIOUS
<1> HIDE DEF new
<1>6. IsSeq(requests') /\ Len(requests') = 1 /\ requests'[1] = new
  BY <1>1, ShortFacts
<1>7. responses = <<>> /\ watch = Nil /\ Len(responses) = 0
  BY <1>1, <1>2, ShortFacts DEF Ordered
<1>8. DOMAIN st' = DeltaFields /\ st'.lastAcked = 0 /\ st'.nonce = 0 /\ st'.streamNonce = 0
  BY <1>1 DEF NewDelta, DeltaFields
<1>9. Ordered'
  BY <1>1, <1>2, <1>3, <1>4, <1>6, <1>7 DEF Ordered
<1>10. DeltaInv'
  <2>1. DeltaTypes'
    BY <1>1, <1>2, <1>3, <1>4, <1>5, <1>6, <1>7, <1>8 DEF DeltaTypes, Ordered
  <2>2. Nonces'
    BY <1>1, <1>4, <1>5, <1>6, <1>8 DEF Nonces
  <2>3. Outstanding' /\ Answers'
    BY <1>1, <1>7, <1>8 DEF Outstanding, Answers
  <2> QED
    BY <2>1, <2>2, <2>3 DEF DeltaInv
<1> QED
  BY <1>1, <1>3, <1>9, <1>10 DEF AckInv, AckedReal, GateOpen

\* The client answers the outstanding response; its answer is the first one in flight.
LEMMA DeltaReceiveKeeps ==
  ASSUME AckInv, NEW accept \in BOOLEAN, DeltaReceive(accept)
  PROVE  AckInv'
<1> DEFINE r   == Head(responses)
           new == [nonce |-> r.nonce, error |-> ~accept, sub |-> {}, unsub |-> {}, initial |-> {}]
<1>1. /\ up /\ proto = "delta" /\ responses # <<>> /\ responses' = Tail(responses)
      /\ requests' = Append(requests, new)
      /\ UNCHANGED <<version, ackedVersion, ackedNode, proto, up, st, watch>>
  BY DEF DeltaReceive, cacheVars, mutVars
<1>2. Ordered /\ DeltaInv
  BY <1>1 DEF AckInv
<1>3. DOMAIN client' = ClientFields /\ client'.nonce = r.nonce
  BY <1>2 DEF DeltaReceive, Ordered, ClientFields
<1>4. DOMAIN hist' = HistFields /\ hist'.okV = IF accept THEN r.version ELSE hist.okV
  BY <1>2 DEF DeltaReceive, Ordered, HistFields, Accepted, Refused
<1>5. new.nonce = r.nonce /\ new.error = ~accept
  OBVIOUS
<1> HIDE DEF r, new
<1>6. /\ IsSeq(requests') /\ Len(requests) \in Nat /\ Len(requests') = Len(requests) + 1
      /\ \A i \in 1..Len(requests) : requests'[i] = requests[i]
      /\ requests'[Len(requests) + 1] = new
  BY <1>1, <1>2, Basics, AppendFacts
<1>7. /\ Ordered' /\ r = responses[1] /\ r.version \in hist.okV..version /\ r.version # 0
      /\ Len(responses') = Len(responses) - 1
  BY <1>1, <1>2, <1>3, <1>4, <1>6, ReceiveOrdered DEF r
<1>8. /\ Len(responses) = 1 /\ st.nonce # 0 /\ r.nonce = st.nonce /\ r.version = st.resp.version
      /\ \A i \in 1..Len(requests) : requests[i].nonce # st.nonce
  BY <1>1, <1>2, <1>7 DEF DeltaInv, Outstanding
<1>9. responses' = <<>>
  <2>1. IsSeq(responses)
    BY <1>2, Basics
  <2> QED
    BY <1>1, <1>8, <2>1 DEF IsSeq
<1>10. /\ st.nonce \in Nat /\ st.lastAcked \in 0..hist.okV /\ version \in Nat
       /\ hist.okV \in Nat /\ hist'.okV \in Nat /\ hist'.okV >= hist.okV
  <2>1. st.nonce \in Nat /\ st.lastAcked \in 0..hist.okV
    BY <1>1, <1>2, DeltaBasics
  <2>2. version \in Nat /\ hist.okV \in Nat
    BY <1>2, Basics
  <2> QED
    BY <1>4, <1>7, <2>1, <2>2
<1>11. \A i \in 1..Len(requests') : i \in 1..Len(requests) \/ i = Len(requests) + 1
  BY <1>6
<1>12. DeltaTypes'
  <2>1. \A i \in 1..Len(requests') : requests'[i].nonce \in Nat
    BY <1>1, <1>2, <1>5, <1>6, <1>8, <1>10, <1>11, DeltaBasics
  <2> QED
    <3>1. st.lastAcked \in 0..hist'.okV
      BY <1>10
    <3> QED
      BY <1>1, <1>2, <1>3, <1>8, <1>10, <2>1, <3>1 DEF DeltaInv, DeltaTypes
<1>13. Nonces'
  <2>1. st.nonce = st.streamNonce /\ st.resp # Nil
    BY <1>1, <1>2, <1>8, DeltaBasics
  <2>2. ASSUME NEW i \in 1..Len(requests') PROVE requests'[i].nonce <= st.streamNonce
    <3>1. CASE i \in 1..Len(requests)
      BY <1>1, <1>2, <1>6, <3>1, DeltaBasics
    <3>2. CASE i = Len(requests) + 1
      BY <1>5, <1>6, <1>8, <1>10, <2>1, <3>2
    <3> QED
      BY <1>11, <3>1, <3>2
  <2>3. client'.nonce <= st.streamNonce
    BY <1>3, <1>8, <1>10, <2>1
  <2> QED
    BY <1>1, <2>1, <2>2, <2>3 DEF Nonces
<1>14. Outstanding'
  BY <1>1, <1>2, <1>9 DEF DeltaInv, Outstanding
<1>15. Answers'
  <2>1. st.resp.version \in Nat
    BY <1>7, <1>8, <1>10
  <2>2. \E i \in 1..Len(requests') : requests'[i].nonce = st.nonce
    <3>1. Len(requests) + 1 \in 1..Len(requests')
      BY <1>6
    <3> QED
      BY <1>5, <1>6, <1>8, <3>1
  <2>3. ASSUME NEW i \in 1..Len(requests'), requests'[i].nonce = st.nonce, ~requests'[i].error
        PROVE  st.resp.version <= hist'.okV
    <3>1. requests'[i] = new
      BY <1>6, <1>8, <1>11, <2>3
    <3>2. accept
      BY <1>5, <2>3, <3>1
    <3> QED
      BY <1>4, <1>8, <2>1, <3>2
  <2> QED
    BY <1>1, <2>1, <2>2, <2>3 DEF Answers, FirstAnswer
<1>16. AckedReal'
  <2>1. AckedReal /\ ackedVersion \in Int
    BY DEF AckInv
  <2>2. hist'.okV \in Nat /\ hist'.okV >= hist.okV /\ hist.okV \in Nat
    BY <1>10
  <2> QED
    BY <1>1, <2>1, <2>2 DEF AckedReal, GateOpen
<1> QED
  BY <1>1, <1>7, <1>12, <1>13, <1>14, <1>15, <1>16 DEF AckInv, DeltaInv

\* A change of subscriptions that repeats the last nonce follows the answer with it.
LEMMA DeltaChangeKeeps ==
  ASSUME AckInv, NEW ns, DeltaChange(ns)
  PROVE  AckInv'
<1>1. /\ up /\ proto = "delta"
      /\ UNCHANGED <<version, ackedVersion, ackedNode, proto, up, responses, st, watch, hist>>
  BY DEF DeltaChange, cacheVars, mutVars
<1>2. Ordered /\ DeltaInv
  BY <1>1 DEF AckInv
<1>3. DOMAIN client' = ClientFields /\ client'.nonce = client.nonce
  BY <1>2 DEF DeltaChange, Ordered, ClientFields
<1>4. PICK nonce \in {0, client.nonce} :
        requests' = Append(requests, [nonce |-> nonce, error |-> FALSE, sub |-> ns \ client.wants,
                                      unsub |-> client.wants \ ns, initial |-> {}])
  BY DEF DeltaChange
<1> DEFINE new == [nonce |-> nonce, error |-> FALSE, sub |-> ns \ client.wants,
                   unsub |-> client.wants \ ns, initial |-> {}]
<1>5. new.nonce = nonce /\ new.error = FALSE /\ requests' = Append(requests, new)
  BY <1>4
<1> HIDE DEF new
<1>6. /\ IsSeq(requests') /\ Len(requests) \in Nat /\ Len(requests') = Len(requests) + 1
      /\ \A i \in 1..Len(requests) : requests'[i] = requests[i]
      /\ requests'[Len(requests) + 1] = new
  <2>1. IsSeq(requests)
    BY <1>2, Basics
  <2> QED
    BY <1>5, <2>1, AppendFacts
<1>7. \A i \in 1..Len(requests') : i \in 1..Len(requests) \/ i = Len(requests) + 1
  BY <1>6
<1>8. Ordered'
  BY <1>1, <1>2, <1>3, <1>6 DEF Ordered
<1>9. DeltaTypes'
  <2>1. nonce \in Nat
    <3>1. client.nonce \in Nat
      BY <1>1, <1>2, DeltaBasics
    <3> QED
      BY <3>1
  <2>2. \A i \in 1..Len(requests') : requests'[i].nonce \in Nat
    BY <1>1, <1>2, <1>5, <1>6, <1>7, <2>1, DeltaBasics
  <2> QED
    BY <1>1, <1>2, <1>3, <2>2 DEF DeltaInv, DeltaTypes
<1>10. Nonces'
  <2>0. nonce <= st.streamNonce
    <3>1. client.nonce <= st.streamNonce /\ st.streamNonce \in Nat
      BY <1>1, <1>2, DeltaBasics
    <3> QED
      BY <3>1
  <2>1. \A i \in 1..Len(requests') : requests'[i].nonce <= st.streamNonce
    BY <1>1, <1>2, <1>5, <1>6, <1>7, <2>0, DeltaBasics
  <2> QED
    BY <1>1, <1>2, <1>3, <2>1 DEF DeltaInv, Nonces
<1>11. Outstanding'
  <2>1. responses # <<>> => \A i \in 1..Len(requests') : requests'[i].nonce # st.nonce
    BY <1>2, <1>5, <1>6, <1>7 DEF DeltaInv, Outstanding
  <2> QED
    BY <1>1, <1>2, <1>3, <2>1 DEF DeltaInv, Outstanding
<1>12. Answers'
  <2> SUFFICES ASSUME st.nonce # 0 PROVE Answers'
    BY <1>1 DEF Answers
  <2>1. /\ st.resp.version \in Nat
        /\ client.nonce = st.nonce => \E i \in 1..Len(requests) : requests[i].nonce = st.nonce
        /\ \A i \in 1..Len(requests) :
              FirstAnswer(i) /\ ~requests[i].error => st.resp.version <= hist.okV
    BY <1>1, <1>2 DEF DeltaInv, Answers
  <2>2. client.nonce = st.nonce => \E i \in 1..Len(requests') : requests'[i].nonce = st.nonce
    <3>1. \A i \in 1..Len(requests) : i \in 1..Len(requests') /\ requests'[i] = requests[i]
      BY <1>6
    <3> QED
      BY <2>1, <3>1
  <2>3. ASSUME NEW i \in 1..Len(requests'), FirstAnswer(i)', ~requests'[i].error
        PROVE  st.resp.version <= hist.okV
    <3>1. CASE i \in 1..Len(requests)
      <4>0. \A j \in 1..i - 1 : requests'[j] = requests[j]
        BY <1>6, <3>1
      <4>1. FirstAnswer(i)
        BY <1>1, <1>6, <2>3, <3>1, <4>0 DEF FirstAnswer
      <4> QED
        BY <1>6, <2>1, <2>3, <3>1, <4>1
    <3>2. CASE i = Len(requests) + 1
      <4>1. client.nonce = st.nonce
        BY <1>1, <1>5, <1>6, <2>3, <3>2 DEF FirstAnswer
      <4>2. PICK j \in 1..Len(requests) : requests[j].nonce = st.nonce
        BY <2>1, <4>1
      <4>3. j \in 1..i - 1 /\ requests'[j].nonce = st.nonce
        BY <1>6, <3>2, <4>2
      <4> QED
        BY <1>1, <2>3, <4>3 DEF FirstAnswer
    <3> QED
      BY <1>7, <3>1, <3>2
  <2> QED
    BY <1>1, <1>3, <2>1, <2>2, <2>3 DEF Answers
<1> QED
  BY <1>1, <1>8, <1>9, <1>10, <1>11, <1>12 DEF AckInv, DeltaInv, AckedReal, GateOpen

-----------------------------------------------------------------------------
(* The specification.                                                      *)

LEMMA AckInit == Init => AckInv
<1> SUFFICES ASSUME Init PROVE AckInv
  OBVIOUS
<1> USE ShortFacts
<1>1. /\ version = 1 /\ ackedVersion = -1 /\ ackedNode = "none" /\ ~up
      /\ requests = <<>> /\ responses = <<>> /\ watch = Nil /\ proto \in {"sotw", "delta"}
  BY XDSProtos DEF Init, CacheInit, MutatorInit, StreamInit, NotSeen
<1>2. DOMAIN hist = HistFields /\ hist.okV = 0
  BY DEF Init, StreamInit, NoHist, HistFields
<1>3. DOMAIN client = ClientFields /\ client.acked = 0 /\ client.nonce = 0
  BY DEF Init, NewClient, ClientFields
<1>4. Ordered
  BY <1>1, <1>2, <1>3 DEF Ordered
<1>5. SotwInv
  BY <1>1, <1>2, <1>3 DEF SotwInv, SotwTypes, Answering, Known
<1>6. DeltaInv
  <2>1. DeltaTypes
    BY <1>1, <1>3 DEF DeltaTypes
  <2>2. Nonces /\ Outstanding /\ Answers
    BY <1>1 DEF Nonces, Outstanding, Answers
  <2> QED
    BY <2>1, <2>2 DEF DeltaInv
<1>7. AckedReal
  BY <1>1, <1>2 DEF AckedReal, GateOpen
<1> QED
  BY <1>1, <1>4, <1>5, <1>6, <1>7 DEF AckInv

LEMMA AckStep ==
  ASSUME AckInv, [Next]_vars
  PROVE  AckInv'
<1>0. version \in Nat \ {0}
  BY DEF AckInv, Ordered
<1>1. CASE Mutate
  <2>1. PICK g \in Groups \cup {Nil}, n \in Names :
          (\E v \in Values : Upsert(g, n, v)) \/ Delete(g, n)
    BY <1>1 DEF Mutate
  <2>2. (\E v : TX(n, v)) /\ UNCHANGED <<ackedVersion, ackedNode>>
    BY <2>1 DEF Upsert, Delete
  <2> QED
    BY <1>0, <1>1, <2>2, Grows, BesideKeeps DEF Mutate
<1>2. CASE Cancel \/ Timeout \/ Restored \/ WaitForFirstAck
  <2>1. UNCHANGED <<version, ackedVersion, streamVars>> /\ (ackedNode' = "nil" => ackedNode = "nil")
    BY <1>2 DEF Cancel, CancelCompletions, Timeout, Deadline, Restored, RestoreCompleted,
                WaitForFirstAck, cacheVars
  <2> QED
    BY <1>0, <2>1, BesideKeeps
<1>3. CASE Waiters
  <2>1. PICK g \in Groups : GroupStep(g)
    BY <1>3 DEF Waiters
  <2>2. UNCHANGED <<ackedVersion, ackedNode>> /\ (UNCHANGED version \/ \E n, v : TX(n, v))
    BY <2>1 DEF GroupStep, Wait, WaitReturn, Revert, WaitComplete, WaitCleanup, cacheVars
  <2> QED
    BY <1>0, <1>3, <2>2, Grows, BesideKeeps DEF Waiters
<1>4. CASE Server
  BY <1>4, SotwRequestKeeps, SotwTopKeeps, SotwGetKeeps, SotwSendKeeps, DeltaRequestKeeps,
     DeltaGetKeeps, DeltaSendKeeps, WatchReadKeeps DEF Server
<1>5. CASE Connect
  BY <1>5, SotwConnectKeeps, DeltaConnectKeeps DEF Connect
<1>6. CASE Accept \/ Reject
  BY <1>6, SotwReceiveKeeps, DeltaReceiveKeeps DEF Accept, Reject
<1>7. CASE Change
  BY <1>7, SotwChangeKeeps, DeltaChangeKeeps DEF Change
<1>8. CASE Break
  <2>1. CASE Disconnect
    BY <2>1, ClosedKeeps DEF Disconnect, cacheVars, mutVars
  <2> QED
    BY <1>8, <2>1, ClientRestartKeeps, AgentRestartKeeps DEF Break
<1>9. CASE UNCHANGED vars
  BY <1>0, <1>9, BesideKeeps DEF vars, cacheVars, mutVars
<1> QED
  BY <1>1, <1>2, <1>3, <1>4, <1>5, <1>6, <1>7, <1>8, <1>9 DEF Next

\* The invariant is what both theorems rest on.
LEMMA AckInvHolds == Spec => []AckInv
BY AckInit, AckStep, PTL DEF Spec

\* The mutator never records, and so never skips a wait or opens the gate of another
\* stream for, a version Envoy did not accept from this agent, whatever versions
\* Envoy brings from an earlier agent or refuses.  (processRequestStream:467,
\* processDeltaRequestStream, HandleResourceVersionAck, WaitForFirstAck)
THEOREM AckedRealHolds == Spec => []AckedReal
<1>1. AckInv => AckedReal
  BY DEF AckInv
<1> QED
  BY <1>1, AckInvHolds, PTL

\* Envoy, which answers every response with its nonce and may repeat the last one, never
\* sees its stream closed for an invalid nonce, on a stream of either variant.
\* (ErrInvalidResponseNonce in processRequestStream and processDeltaRequestStream)
THEOREM NonceValidHolds == Spec => []NonceValid
<1>1. AckInv => NonceValid
  <2> SUFFICES ASSUME AckInv, up, requests # <<>>
               PROVE  LET req == Head(requests)
                      IN  IF proto = "sotw"
                          THEN ~((st.received \/ req.nonce > 0) /\ req.acked > req.nonce)
                          ELSE ~BadNonce(req.nonce)
    BY DEF NonceValid
  <2>1. CASE proto = "sotw"
    <3>1. version \in Nat
      BY DEF AckInv, Ordered
    <3> QED
      BY <2>1, <3>1, SotwHead
  <2>2. CASE proto = "delta"
    <3>1. Head(requests) = requests[1] /\ 1 \in 1..Len(requests)
      BY Basics, TailFacts DEF AckInv
    <3>2. /\ requests[1].nonce \in Nat /\ st.nonce \in Nat /\ st.streamNonce \in Nat
          /\ requests[1].nonce <= st.streamNonce /\ st.nonce \in {0, st.streamNonce}
          /\ st.streamNonce # 0 => st.resp # Nil
      BY <2>2, <3>1, DeltaBasics DEF AckInv
    <3> QED
      BY <2>2, <3>1, <3>2 DEF BadNonce
  <2> QED
    BY <2>1, <2>2 DEF AckInv
<1> QED
  BY <1>1, AckInvHolds, PTL
=============================================================================
