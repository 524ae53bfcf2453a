------------------------------- MODULE Names --------------------------------
(***************************************************************************)
(* The names of OverlappingRangeIPReservations.  The plugin derives the    *)
(* name from address and network (NormalizeIP) and still finds those that  *)
(* versions before it wrote (LegacyNormalizeIP); the operator goes the     *)
(* other way and reads the address off the name (denormalizeIPName).       *)
(*                                                                         *)
(* A name is the sequence of its parts between dashes: a run of hex digits *)
(* of value v, padded to four or not, an IPv4 address with its dots, a     *)
(* word, or nothing.  A decimal number is the digits that also spell it in *)
(* hex.  An address has four octets or eight groups.                       *)
(***************************************************************************)
EXTENDS Integers, Sequences, FiniteSets

CONSTANTS Addresses, Networks, Pods, None,
          UID,      \* the UID of each pod, None if the runtime does not tell it
          Legacy,   \* what older versions may have reserved: <<ip, net>>
          MaxReservations

VARIABLES orips,    \* the reservations: [name, ip, net, pod, uid]
          entries,  \* what pods have in IP pools: [ip, net, pod]
          asked     \* ADDs that found no reservation and will create one

vars == <<orips, entries, asked>>

Hex(v, pad) == [kind |-> "hex", v |-> v, pad |-> pad /\ v < 4096, ip |-> <<>>]
Dotted(ip)  == [kind |-> "dotted", v |-> 0, pad |-> FALSE, ip |-> ip]
Nothing     == [kind |-> "nothing", v |-> 0, pad |-> FALSE, ip |-> <<>>]

IsV4(ip) == Len(ip) = 4
-----------------------------------------------------------------------------
(* From address to name.                                                   *)

\* How Go prints an IPv6 address: the first of the longest runs of two or more
\* zero groups becomes "::", whose dashes are cut off at either end of a name.
ZeroRuns(ip) == {run \in (1 .. 8) \X (2 .. 8) :
                   run[1] + run[2] =< 9 /\ \A k \in run[1] .. run[1] + run[2] - 1 : ip[k] = 0}

Unpadded(groups) == [k \in DOMAIN groups |-> Hex(groups[k], FALSE)]

Compressed(ip) ==
  IF ZeroRuns(ip) = {} THEN Unpadded(ip)
  ELSE LET run == CHOOSE r \in ZeroRuns(ip) : \A q \in ZeroRuns(ip) :
                    q[2] < r[2] \/ (q[2] = r[2] /\ q[1] >= r[1])
           before == SubSeq(ip, 1, run[1] - 1)
           after  == SubSeq(ip, run[1] + run[2], 8)
       IN  Unpadded(before)
             \o (IF before = <<>> \/ after = <<>> THEN <<>> ELSE <<Nothing>>) \o Unpadded(after)

\* The hex digits that read as the decimal number n.
InDecimal(n) == Hex((n \div 100) * 256 + ((n \div 10) % 10) * 16 + (n % 10), FALSE)

LegacyNormalizeIP(ip, net) ==
  net \o (IF IsV4(ip) THEN [k \in 1 .. 4 |-> InDecimal(ip[k])] ELSE Compressed(ip))

NormalizeIP(ip, net) ==
  net \o (IF IsV4(ip) THEN <<Dotted(ip)>> ELSE [k \in 1 .. 8 |-> Hex(ip[k], TRUE)])
-----------------------------------------------------------------------------
(* From name to address.                                                   *)

Digits(v) == <<v \div 4096, (v \div 256) % 16, (v \div 16) % 16, v % 16>>

isDecimalToken(t) == t.kind = "hex" /\ \A k \in 1 .. 4 : Digits(t.v)[k] < 10

Atoi(t) == LET d == Digits(t.v) IN 1000 * d[1] + 100 * d[2] + 10 * d[3] + d[4]

\* Mutant: a fifth number after four is not looked at.
DashedFourOfMany(name) ==
  LET at == {i \in 0 .. Len(name) - 4 : \A j \in 1 .. 4 : isDecimalToken(name[i + j]) /\ Atoi(name[i + j]) < 256}
  IN  IF at = {} THEN None
      ELSE LET i == CHOOSE i \in at : \A h \in at : i =< h IN [j \in 1 .. 4 |-> Atoi(name[i + j])]

\* The first four numbers in a row that no fifth joins, as an IPv4 address.
parseDashedIPv4Name(name) ==
  LET at == {i \in 0 .. Len(name) - 4 :
               /\ i > 0 => ~isDecimalToken(name[i])
               /\ i + 4 < Len(name) => ~isDecimalToken(name[i + 5])
               /\ \A j \in 1 .. 4 : isDecimalToken(name[i + j]) /\ Atoi(name[i + j]) < 256}
  IN  IF at = {} THEN None
      ELSE LET i == CHOOSE i \in at : \A h \in at : i =< h IN [j \in 1 .. 4 |-> Atoi(name[i + j])]

\* net.ParseIP of the name as it is, and with colons for dashes.
ParseDotted(name) == IF Len(name) = 1 /\ name[1].kind = "dotted" THEN name[1].ip ELSE None

ParseColons(name) ==
  LET gaps   == {k \in DOMAIN name : name[k] = Nothing}
      groups == [k \in DOMAIN name |-> name[k].v]
      gap    == CHOOSE k \in gaps : TRUE
  IN  IF \E k \in DOMAIN name : name[k].kind \notin {"hex", "nothing"} THEN None
      ELSE IF gaps = {} /\ Len(name) = 8 THEN groups
      ELSE IF Cardinality(gaps) = 1 /\ gap \in 2 .. Len(name) - 1 /\ Len(name) =< 8
           THEN SubSeq(groups, 1, gap - 1) \o [k \in 1 .. 9 - Len(name) |-> 0]
                  \o SubSeq(groups, gap + 1, Len(name))
      ELSE None

Readings(name) == <<ParseDotted(name), parseDashedIPv4Name(name), ParseColons(name)>>

\* Each suffix of the name in turn, in each of the three ways.
denormalizeIPName(name) ==
  LET suffix(i) == SubSeq(name, i, Len(name))
      good == {i \in DOMAIN name : \E w \in 1 .. 3 : Readings(suffix(i))[w] # None}
  IN  IF good = {} THEN None
      ELSE LET i == CHOOSE i \in good : \A h \in good : i =< h
               r == Readings(suffix(i))
           IN  r[CHOOSE w \in 1 .. 3 : r[w] # None /\ \A u \in 1 .. w - 1 : r[u] = None]
-----------------------------------------------------------------------------
(* The plugin's store.                                                     *)

Named(name) == {r \in orips : r.name = name}

\* Mutant: only names of the present form are looked up.
GetPresentForm(ip, net) == Named(NormalizeIP(ip, net))

GetOverlappingRangeIPReservation(ip, net) ==
  IF Named(NormalizeIP(ip, net)) # {} THEN Named(NormalizeIP(ip, net))
  ELSE Named(LegacyNormalizeIP(ip, net))

Call(p, ip, net) == [pod |-> p, ip |-> ip, net |-> net]

\* An ADD asks, and creates in a later step; another may have in between.
Ask(p, ip, net) ==
  /\ ~\E e \in entries \cup asked : e.pod = p
  /\ Cardinality(orips) + Cardinality(asked) < MaxReservations
  /\ GetOverlappingRangeIPReservation(ip, net) = {}
  /\ asked' = asked \cup {Call(p, ip, net)}
  /\ UNCHANGED <<orips, entries>>

Create(c) ==
  LET name == NormalizeIP(c.ip, c.net)
  IN  /\ asked' = asked \ {c}
      /\ IF Named(name) # {} THEN UNCHANGED <<orips, entries>>
         ELSE /\ orips' = orips \cup {[name |-> name, ip |-> c.ip, net |-> c.net, pod |-> c.pod,
                                       uid |-> UID[c.pod]]}
              /\ entries' = entries \cup {c}

\* Deletes by one name unless it holds the UID of another life of the pod.
Foreign(name, p) == UID[p] # None /\ \E r \in Named(name) : r.uid \notin {None, UID[p]}

Deallocate(e) ==
  LET name   == NormalizeIP(e.ip, e.net)
      legacy == LegacyNormalizeIP(e.ip, e.net)
  IN  /\ entries' = entries \ {e}
      /\ orips' = IF Foreign(name, e.pod) THEN orips
                  ELSE IF Named(name) # {} THEN orips \ Named(name)
                  ELSE IF Foreign(legacy, e.pod) THEN orips ELSE orips \ Named(legacy)
      /\ UNCHANGED asked

\* The operator drops the entry of a pod that is gone, then the reservations
\* of that pod whose names read as its address.
Clean(e) ==
  /\ entries' = entries \ {e}
  /\ orips' = {r \in orips : ~(denormalizeIPName(r.name) = e.ip /\ r.pod = e.pod)}
  /\ UNCHANGED asked
-----------------------------------------------------------------------------
LegacyName(l) == LegacyNormalizeIP(l.ip, l.net)

Init ==
  /\ \E old \in [Pods -> Legacy \cup {None}] :
       entries = {Call(p, old[p][1], old[p][2]) : p \in {q \in Pods : old[q] # None}}
  /\ \A a, b \in entries : a # b => LegacyName(a) # LegacyName(b)
  /\ orips = {[name |-> LegacyName(l), ip |-> l.ip, net |-> l.net, pod |-> l.pod, uid |-> None] : l \in entries}
  /\ asked = {}

Next ==
  \/ \E p \in Pods, ip \in Addresses, net \in Networks : Ask(p, ip, net)
  \/ \E c \in asked : Create(c)
  \/ \E e \in entries : Deallocate(e) \/ Clean(e)

Spec == Init /\ [][Next]_vars
-----------------------------------------------------------------------------
\* Names of older versions that may stand for several addresses: "::" at either
\* end is cut off, so that ::1 and 1:: are both "1", and the end of a network's
\* name may read as the beginning of an address.
CutOff(ip) == ~IsV4(ip) /\ 0 \in {ip[1], ip[8]}
OfOldVersion(r) == r.name = LegacyName(r)

\* An address of a network is reserved at most once, under names of either
\* form; looking it up finds the reservation, so that a new pod sees what an
\* older version reserved, and finds no other (NormalizeIP, LegacyNormalizeIP,
\* GetOverlappingRangeIPReservation).  The exception is an older version's
\* reservation in another network, or where one of the two addresses loses its
\* "::": it may be found for an address that is not reserved.
LookupExact ==
  \A ip \in Addresses, net \in Networks :
    LET found    == GetOverlappingRangeIPReservation(ip, net)
        reserved == {r \in orips : r.ip = ip /\ r.net = net}
    IN  /\ Cardinality(reserved) =< 1 /\ reserved \subseteq found
        /\ \A r \in found \ reserved :
             reserved = {} /\ OfOldVersion(r) /\ (r.net # net \/ CutOff(r.ip) \/ CutOff(ip))

\* Names that read as another address: an IPv6 address with exactly four groups
\* in a row that are decimal numbers below 256, or an older version's name that
\* lost its "::", or follows a network's name that ends in a number.
Numbers(name) == {k \in DOMAIN name : isDecimalToken(name[k])}
FourNumbers(name) ==
  \E i \in 1 .. Len(name) - 3 :
    Numbers(name) \cap (i - 1 .. i + 4) = i .. i + 3 /\ \A k \in i .. i + 3 : Atoi(name[k]) < 256
Misleading(r) ==
  /\ ~IsV4(r.ip)
  /\ \/ FourNumbers(r.name)
     \/ OfOldVersion(r) /\ (CutOff(r.ip) \/ (r.net # <<>> /\ r.net[Len(r.net)].kind = "hex"))

\* A reservation goes with the entry it was made for, whether DEL releases it
\* or the operator cleans up behind a pod that is gone: "converts a normalized
\* IP name (dashes for colons) back to a net.IP" (denormalizeIPName).  The
\* exception are IPv6 addresses whose names read as others (Misleading).
NothingLeft ==
  \A r \in orips : Misleading(r) \/ \E e \in entries : e.pod = r.pod /\ e.ip = r.ip /\ e.net = r.net
=============================================================================
