--------------------------- MODULE ClientAddress ---------------------------
(***************************************************************************)
(* Whose address a request counts under (handlers/clientip.go): a pure     *)
(* function of the connection's peer and of two headers, and the ways a    *)
(* request comes with them.                                                *)
(*                                                                         *)
(* X-Forwarded-For is the list of its entries, trimmed.  A caller writes   *)
(* what it likes into both headers.  A request that arrives over proxies   *)
(* has been through at least the one that is its peer.  Each proxy appends *)
(* the address it was called from to X-Forwarded-For; that is how proxies  *)
(* behave, and what the rule at clientip.go 15-22 relies on.  With         *)
(* CF-Connecting-IP they do nothing: what the caller wrote there arrives,  *)
(* unless Cloudflare's edge is the first of them and overwrites it.        *)
(***************************************************************************)
EXTENDS Integers, Sequences

CONSTANTS
    IPs,        \* the addresses
    Trusted,    \* those inside TRUSTED_PROXY_CIDRS
    Callers,    \* the addresses calls come from
    Blank,      \* "": no header, or an entry of white space
    Garbage,    \* an entry net.ParseIP does not parse
    Claims,     \* what a caller may send as CF-Connecting-IP
    Forged,     \* the lists it may send as X-Forwarded-For
    Relays      \* the proxies a request may pass before the last one, in order

Entries == IPs \cup {Blank, Garbage}

ASSUME TrustedAssumption == Trusted \subseteq IPs
ASSUME CallersAssumption == Callers \subseteq IPs
ASSUME EntryAssumption   == Blank # Garbage /\ Blank \notin IPs /\ Garbage \notin IPs
ASSUME HeaderAssumption  == Claims \subseteq Entries
ASSUME RouteAssumption   == Forged \subseteq Seq(Entries) /\ Relays \subseteq Seq(Trusted)

isTrustedProxy(a) == a \in Trusted

\* Where the walk from the right stops: at an entry that is neither blank nor one
\* of our own proxies.
Stops(header) ==
    {i \in 1..Len(header) : header[i] # Blank /\ ~isTrustedProxy(header[i])}

\* Regression: an entry that is no address is skipped.
forwardedForSkipping(header) ==
    LET stops == {i \in Stops(header) : header[i] \in IPs}
    IN  IF stops = {} THEN Blank
        ELSE header[CHOOSE i \in stops : \A j \in stops : j <= i]

\* Regression: the walk goes from the left.
forwardedForLeftmost(header) ==
    LET stops == Stops(header)
        first == CHOOSE i \in stops : \A j \in stops : i <= j
    IN  IF stops # {} /\ header[first] \in IPs THEN header[first] ELSE Blank

\* The right-most entry that is not one of our own proxies, unless it is no
\* address.
forwardedFor(header) ==
    LET stops == Stops(header)
        last  == CHOOSE i \in stops : \A j \in stops : j <= i
    IN  IF stops # {} /\ header[last] \in IPs THEN header[last] ELSE Blank

clientIP(d) ==
    IF ~isTrustedProxy(d.peer)            THEN d.peer
    ELSE IF d.cf \in IPs                  THEN d.cf
    ELSE IF forwardedFor(d.fwd) # Blank   THEN forwardedFor(d.fwd)
    ELSE d.peer

----------------------------------------------------------------------------
\* How a request arrives: from whom, over which connection, with which headers;
\* and what its proxies passed on as CF-Connecting-IP although the caller wrote it.

Direct == {[from |-> a, peer |-> a, cf |-> c, fwd |-> f, passed |-> Blank] :
              a \in Callers, c \in Claims, f \in Forged}

\* From a, over the proxies h and then p.  Edge: Cloudflare's is the first.
\* Readable: the first names the caller, and does not write "unknown".
Over(a, h, p, c, f, edge, readable) ==
    [from |-> a, peer |-> p,
     cf |-> IF edge THEN a ELSE c,
     fwd |-> f \o <<IF readable THEN a ELSE Garbage>> \o h,
     passed |-> IF edge THEN Blank ELSE c]

Relayed == {Over(a, h, p, c, f, edge, readable) :
               a \in Callers, h \in Relays, p \in Trusted, c \in Claims, f \in Forged,
               edge \in BOOLEAN, readable \in BOOLEAN}

Deliveries == Direct \cup Relayed
=============================================================================
