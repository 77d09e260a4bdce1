------------------------------ MODULE ScopeRules ------------------------------
(***************************************************************************)
(* The decisions ScanGuard takes, without state: which networks a scope    *)
(* profile may hold, and which targets a profile admits.  An address is a  *)
(* number, a network the set of its addresses; the tables of ranges.py and *)
(* of the ipaddress library are constants.                                 *)
(***************************************************************************)
EXTENDS Integers, FiniteSets

CONSTANTS
  Addresses,       \* all addresses
  BaseRanges,      \* BASE_ALLOWED_RANGES
  OptIns,          \* allow_cgnat, allow_link_local
  OptInRanges,     \* what each of them adds
  Untouchable,     \* cloud metadata, broadcast, documentation addresses
  SpecialClasses,  \* multicast, unspecified
  LocalRanges,     \* the library's ranges that are not globally routable
  MaxNetwork       \* size of the broadest network, a /16 or a /64

AllowedRangesFor(optins) == BaseRanges \cup UNION {OptInRanges[o] : o \in optins}

\* What the tables have to satisfy for the two checks to agree: an allowed
\* range is local as a whole and holds no multicast or unspecified address.
\* It may hold untouchable ones (link-local holds a metadata address).
ASSUME ScopeRulesAssumption ==
  /\ Addresses \subseteq Int
  /\ OptInRanges \in [OptIns -> SUBSET SUBSET Addresses]
  /\ MaxNetwork \in Nat
  /\ \A r \in AllowedRangesFor(OptIns) :
       /\ \E l \in LocalRanges : r \subseteq l
       /\ \A c \in SpecialClasses : r \cap c = {}

\* First and last address of a network.
Ends(n) == {a \in n : (\A b \in n : a <= b) \/ (\A b \in n : b <= a)}

IsAlwaysDenied(a) ==
  \/ a \in Untouchable
  \/ \E c \in SpecialClasses : a \in c
  \/ \A l \in LocalRanges : a \notin l

\* Mutant: containment where the code asks for overlap.
NetworkAlwaysDenied_Contained(n) ==
  \/ n \subseteq Untouchable
  \/ \E c \in SpecialClasses : Ends(n) \subseteq c
  \/ \A l \in LocalRanges : ~ Ends(n) \subseteq l

\* The library's is_multicast, is_unspecified and is_global of a network look
\* at its first and last address.
NetworkAlwaysDenied(n) ==
  \/ n \cap Untouchable # {}
  \/ \E c \in SpecialClasses : Ends(n) \subseteq c
  \/ \A l \in LocalRanges : ~ Ends(n) \subseteq l

\* One candidate has to hold the whole network: a union of two does not count.
NetworkWithinAllowed(n, allowed) == \E r \in allowed : n \subseteq r

TooBroad(n) == Cardinality(n) > MaxNetwork

\* A profile is what its row says: the networks of its entries, its opt-ins.
\* ScopeProfile.create raises for every other row.
ValidProfile(row) ==
  /\ row.entries # {}
  /\ \A n \in row.entries :
       /\ ~ TooBroad(n)
       /\ NetworkWithinAllowed(n, AllowedRangesFor(row.optins))

ContainsAddress(row, a) == \E n \in row.entries : a \in n
ContainsNetwork(row, n) == NetworkWithinAllowed(n, row.entries)

\* The check of one address, at validation and again at every connect.
Admits(row, a) == ~ IsAlwaysDenied(a) /\ ContainsAddress(row, a)

NetworkAdmitted(row, n) ==
  /\ ~ TooBroad(n)
  /\ ~ NetworkAlwaysDenied(n)
  /\ ContainsNetwork(row, n)

\* A name is refused whole if one of its addresses is.
AddressesAdmitted(row, as) == as # {} /\ \A a \in as : Admits(row, a)

TargetAdmitted(row, kind, as) ==
  IF kind = "cidr" THEN NetworkAdmitted(row, as) ELSE AddressesAdmitted(row, as)
=============================================================================
