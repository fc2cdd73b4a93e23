---------------------------- MODULE LeaseService ----------------------------
(***************************************************************************)
(* What the queue promises a worker: a lease with a fencing generation.    *)
(* An item is held by at most one name; a client may change a held item    *)
(* only while it remembers the generation under which the item is held;    *)
(* every grant and every expiry moves the generation on.  Several clients  *)
(* may share a name, so the name alone proves nothing.                     *)
(***************************************************************************)
EXTENDS Naturals

CONSTANTS
    Items,    \* what can be leased
    Clients,  \* who works on it
    Names,    \* what a lease is signed with
    NameOf,   \* the name of every client
    Nobody    \* no name

VARIABLES
    holder,      \* the name each item is held by, or Nobody
    generation,  \* the generation of its last grant or expiry
    content,     \* what the lease protects
    claims       \* the item and generation each client remembers

serviceVars == <<holder, generation, content, claims>>

NoClaim == [item |-> Nobody, gen |-> 0]

ServiceInit ==
    /\ holder = [i \in Items |-> Nobody]
    /\ generation = [i \in Items |-> 0]
    /\ claims = [c \in Clients |-> NoClaim]

Held == {i \in Items : holder[i] # Nobody}

\* Nothing in S changes hands or content.
Protects(S) ==
    \A i \in S : /\ holder'[i] = holder[i]
                 /\ generation'[i] = generation[i]
                 /\ content'[i] = content[i]

\* A free item is granted under a fresh generation.
Grant(c, i) ==
    /\ i \notin Held
    /\ holder' = [holder EXCEPT ![i] = NameOf[c]]
    /\ generation' = [generation EXCEPT ![i] = @ + 1]
    /\ claims' = [claims EXCEPT ![c] = [item |-> i, gen |-> generation'[i]]]
    /\ Protects(Held)

Current(c) ==
    /\ claims[c].item \in Held
    /\ holder[claims[c].item] = NameOf[c]
    /\ generation[claims[c].item] = claims[c].gen

\* The holder works on its item, and may give it back.
Use(c) ==
    /\ Current(c)
    /\ \/ UNCHANGED <<holder, claims>>
       \/ /\ holder' = [holder EXCEPT ![claims[c].item] = Nobody]
          /\ claims' = [claims EXCEPT ![c] = NoClaim]
    /\ UNCHANGED generation
    /\ Protects(Items \ {claims[c].item})

\* Held items are taken back, and their holders fenced.
Expire(S) ==
    /\ S \subseteq Held
    /\ holder' = [i \in Items |-> IF i \in S THEN Nobody ELSE holder[i]]
    /\ generation' = [i \in Items |-> IF i \in S THEN generation[i] + 1 ELSE generation[i]]
    /\ UNCHANGED claims
    /\ Protects(Items \ S)

\* Everybody else may touch the free items only; a client may forget its claim.
Outside ==
    /\ UNCHANGED <<holder, generation>>
    /\ \/ UNCHANGED claims
       \/ \E c \in Clients : claims' = [claims EXCEPT ![c] = NoClaim]
    /\ Protects(Held)

ServiceNext ==
    \/ \E c \in Clients, i \in Items : Grant(c, i)
    \/ \E c \in Clients : Use(c)
    \/ \E S \in SUBSET Held : Expire(S)
    \/ Outside

ServiceSpec == ServiceInit /\ [][ServiceNext]_serviceVars

=============================================================================
