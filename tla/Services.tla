------------------------------ MODULE Services -------------------------------
(***************************************************************************)
(* What the services of a packet hold, for those who read them: the        *)
(* handler of a terminal's connection (Connection) and the EGTS            *)
(* destination (EgtsRelay).                                                *)
(*                                                                         *)
(* A service has a pair of service types ("auth" for AUTH_SERVICE to       *)
(* AUTH_SERVICE, anything else otherwise) and a sequence of items: a       *)
(* terminal's identity, credentials that are right, wrong or of an         *)
(* unsupported form, a confirmation, or something else.                    *)
(***************************************************************************)
EXTENDS Integers, Sequences, FiniteSets, SequencesExt

CONSTANTS
    Ids,   \* identities of terminals
    None   \* no identity

Logins == {"right", "wrong", "sequenced"}
Items == Ids \union Logins \union {"confirmation", "other"}

ASSUME IdAssumption == None \notin Ids /\ Ids \intersect (Logins \union {"confirmation", "other"}) = {}

ItemsOf(services) == UNION {ToSet(s.items) : s \in services}
Of(p, pair) == {s \in ToSet(p.services) : (s.pair = "auth") = pair}
AuthItems(p) == ItemsOf(Of(p, TRUE))
HasCredentials(p) == ItemsOf(ToSet(p.services)) \intersect Logins # {}

\* The identity a packet names, the last one if there are several.
Names(p) == AuthItems(p) \intersect Ids # {}
NamedAt(p, i, k) ==
    /\ i \in DOMAIN p.services /\ p.services[i].pair = "auth"
    /\ k \in DOMAIN p.services[i].items /\ p.services[i].items[k] \in Ids
NamedLast(p, x) ==
    \E i \in DOMAIN p.services : \E k \in DOMAIN p.services[i].items :
        /\ NamedAt(p, i, k) /\ p.services[i].items[k] = x
        /\ \A j \in DOMAIN p.services : \A l \in DOMAIN p.services[j].items :
             NamedAt(p, j, l) => j < i \/ (j = i /\ l <= k)
LastNamed(p) == CHOOSE x \in Ids : NamedLast(p, x)

=============================================================================
