------------------------------- MODULE ToRead -------------------------------
(* What a device that reads its channel at its relays promises, whatever    *)
(* pages, places and marks it reads by.  Each relay has rows, and for each  *)
(* device and relay some of them are still to be read.  Nothing leaves what *)
(* is to be read but by being held at the device, by going from the relay,  *)
(* or because the device takes nothing of its author.  RelayPages           *)
(* implements it.                                                           *)
EXTENDS Naturals

CONSTANTS Devices, Relays, Slots

Keys == Slots \X Devices

VARIABLES
  rows,    \* rows[r][k]: the revision the relay has for k, 0 for none
  held,    \* held[d][k]: the revision the device has for k, 0 for none
  counts,  \* counts[d]: the authors whose entries the device takes
  toRead   \* toRead[d][r]: what the device has still to read at the relay

vars == <<rows, held, counts, toRead>>

At(r) == {k \in Keys : rows[r][k] > 0}

(* At first each device has still to read all that it does not hold. *)
Init ==
  \A d \in Devices, r \in Relays :
    /\ toRead[d][r] \subseteq At(r)
    /\ \A k \in At(r) \ toRead[d][r] :
         k[2] \in counts[d] => held[d][k] >= rows[r][k]

OthersToRead(d, r) ==
  \A e \in Devices, q \in Relays :
    <<e, q>> # <<d, r>> => toRead'[e][q] = toRead[e][q]

(* The relay's rows change.  A row that is new is to be read by every       *)
(* device, and one that was to be read still is.                            *)
Change(r) ==
  /\ \A q \in Relays \ {r} : rows'[q] = rows[q]
  /\ \A d \in Devices :
       /\ toRead'[d][r] \subseteq At(r)'
       /\ {k \in At(r)' : k \in toRead[d][r] \/ rows'[r][k] # rows[r][k]}
            \subseteq toRead'[d][r]
       /\ \A q \in Relays \ {r} : toRead'[d][q] = toRead[d][q]
  /\ UNCHANGED <<held, counts>>

(* The device reads at the relay: what it need read no more, it holds at    *)
(* that revision or a later one, or it is of an author it does not take.    *)
Read(d, r) ==
  /\ \A e \in Devices \ {d} : held'[e] = held[e]
  /\ \A k \in Keys : held'[d][k] >= held[d][k]
  /\ OthersToRead(d, r)
  /\ toRead'[d][r] \subseteq At(r)
  /\ \A k \in toRead[d][r] \ toRead'[d][r] :
       k[2] \in counts[d] => held'[d][k] >= rows[r][k]
  /\ UNCHANGED <<rows, counts>>

(* The device writes an entry of its own. *)
Write(d) ==
  /\ \A e \in Devices \ {d} : held'[e] = held[e]
  /\ \A k \in Keys : held'[d][k] >= held[d][k]
  /\ UNCHANGED <<rows, counts, toRead>>

(* The device lets go of some of what it holds, or comes to take another    *)
(* author's entries: then everything there is is to be read.                *)
Again(d) ==
  /\ \A e \in Devices \ {d} :
       /\ held'[e] = held[e]
       /\ counts'[e] = counts[e]
       /\ toRead'[e] = toRead[e]
  /\ \A r \in Relays : toRead'[d][r] = At(r)
  /\ UNCHANGED rows

Next ==
  \/ \E r \in Relays : Change(r)
  \/ \E d \in Devices : Write(d) \/ Again(d)
  \/ \E d \in Devices, r \in Relays : Read(d, r)

Spec == Init /\ [][Next]_vars
=============================================================================
