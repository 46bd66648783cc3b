------------------------ MODULE ClientAddressProofs ------------------------
(***************************************************************************)
(* Proofs about ClientAddress: for any forged header of any length and any *)
(* number of proxies.                                                      *)
(***************************************************************************)
EXTENDS ClientAddress, TLAPS

\* The walk from the right passes the proxies that were relayed through and stops
\* at what the first of them wrote, whatever stands to its left.
LEMMA WalkStopsAtCaller ==
    ASSUME NEW f \in Seq(Entries), NEW h \in Seq(Trusted), NEW e \in Entries \ Trusted, e # Blank
    PROVE  forwardedFor(f \o <<e>> \o h) = IF e \in IPs THEN e ELSE Blank
<1> DEFINE n      == Len(f) + 1
           header == f \o <<e>> \o h
           stops  == Stops(header)
<1>1. /\ Len(f) \in Nat /\ Len(h) \in Nat
      /\ Len(header) = Len(f) + 1 + Len(h)
      /\ header[n] = e
      /\ \A i \in (n + 1)..Len(header) : header[i] = h[i - n]
  OBVIOUS
<1>2. n \in stops
  BY <1>1 DEF Stops, isTrustedProxy
<1>3. \A j \in stops : j <= n
  <2> SUFFICES ASSUME NEW j \in stops, n < j PROVE FALSE
    BY <1>1 DEF Stops
  <2>1. j \in (n + 1)..Len(header) /\ header[j] \notin Trusted
    BY <1>1 DEF Stops, isTrustedProxy
  <2>2. header[j] = h[j - n] /\ j - n \in 1..Len(h)
    BY <1>1, <2>1
  <2>3. QED BY <2>1, <2>2
<1>4. n = CHOOSE i \in stops : \A j \in stops : j <= i
  <2> DEFINE last == CHOOSE i \in stops : \A j \in stops : j <= i
  <2>1. last \in stops /\ \A j \in stops : j <= last
    BY <1>2, <1>3
  <2>2. stops \subseteq Int
    BY DEF Stops
  <2>3. QED BY <1>1, <1>2, <1>3, <2>1, <2>2
<1>5. QED BY <1>1, <1>2, <1>4 DEF forwardedFor

\* A request of a caller outside the trusted networks is counted under the
\* caller's address, or, where it came over a proxy, under that proxy's (it names
\* nobody) or under the CF-Connecting-IP the proxies passed on unwritten: what a
\* caller puts into X-Forwarded-For never decides.
THEOREM ClientAddressKnown ==
    ASSUME NEW d \in Deliveries
    PROVE  /\ d.from \in IPs /\ d.peer \in IPs /\ d.passed \in Entries
           /\ clientIP(d) \in IPs
           /\ d.from \notin Trusted =>
                 \/ clientIP(d) = d.from
                 \/ d.peer \in Trusted /\ clientIP(d) \in {d.peer, d.passed}
<1>1. ASSUME d.peer \in IPs
      PROVE  clientIP(d) \in IPs
  BY <1>1, EntryAssumption DEF clientIP, forwardedFor
<1>2. CASE d \in Direct
  BY <1>1, <1>2, CallersAssumption DEF Direct, Entries, clientIP, isTrustedProxy
<1>3. CASE d \in Relayed
  <2>1. PICK a \in Callers, h \in Relays, p \in Trusted, c \in Claims, f \in Forged,
             edge \in BOOLEAN, readable \in BOOLEAN :
          d = Over(a, h, p, c, f, edge, readable)
    BY <1>3 DEF Relayed
  <2>2. a \in IPs /\ p \in IPs /\ c \in Entries
    BY CallersAssumption, TrustedAssumption, HeaderAssumption
  <2>3. d.from = a /\ d.peer = p /\ d.passed \in Entries
    BY <2>1, <2>2 DEF Over, Entries
  <2>4. ASSUME a \notin Trusted
        PROVE  clientIP(d) = a \/ clientIP(d) \in {p, d.passed}
    <3>1. f \in Seq(Entries) /\ h \in Seq(Trusted)
      BY RouteAssumption
    <3> DEFINE e == IF readable THEN a ELSE Garbage
    <3>2. e \in Entries \ Trusted /\ e # Blank
      BY <2>2, <2>4, EntryAssumption, TrustedAssumption DEF Entries
    <3>3. forwardedFor(d.fwd) = IF e \in IPs THEN e ELSE Blank
      BY <2>1, <3>1, <3>2, WalkStopsAtCaller DEF Over
    <3>4. CASE edge
      BY <2>1, <2>2, <3>4 DEF clientIP, isTrustedProxy, Over
    <3>5. CASE ~ edge
      BY <2>1, <2>2, <3>3, <3>5, EntryAssumption DEF clientIP, isTrustedProxy, Over
    <3>6. QED BY <3>4, <3>5
  <2>5. QED BY <1>1, <2>2, <2>3, <2>4
<1>4. QED BY <1>2, <1>3 DEF Deliveries
=============================================================================
