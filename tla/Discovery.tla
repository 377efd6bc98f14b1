------------------------------ MODULE Discovery ------------------------------
(***************************************************************************)
(* What a bridge node learns of servers (src/src/relay.rs): the name a     *)
(* server puts into its announces, what is read out of an announce, and    *)
(* the list of servers that announces build up.                            *)
(*                                                                         *)
(* A name is the sequence of the widths in bytes of its UTF-8 characters;  *)
(* the empty one is no name (Option::None).  Names are taken as trimmed.   *)
(***************************************************************************)
EXTENDS Naturals, Sequences

CONSTANTS
  DefaultName,    \* DEFAULT_SERVER_ANNOUNCE_NAME
  MaxBytes        \* MAX_ANNOUNCE_APP_DATA_LEN

Bytes(name) ==
  LET upTo[i \in 0..Len(name)] == IF i = 0 THEN 0 ELSE upTo[i - 1] + name[i]
  IN  upTo[Len(name)]

ASSUME DiscoveryAssumption ==
  /\ MaxBytes \in Nat
  /\ DefaultName # << >>
  /\ Bytes(DefaultName) <= MaxBytes

Configured(name) == IF name = << >> THEN DefaultName ELSE name

\* server_announce_name_bytes: the name's bytes up to the limit, which are
\* whole characters and what is left of the one that the limit cuts.
server_announce_name_bytes(name) ==
  LET full  == Configured(name)
      limit == IF Bytes(full) < MaxBytes THEN Bytes(full) ELSE MaxBytes
      whole == CHOOSE k \in 0..Len(full) :
                 /\ Bytes(SubSeq(full, 1, k)) <= limit
                 /\ k < Len(full) => Bytes(SubSeq(full, 1, k + 1)) > limit
  IN  [chars |-> SubSeq(full, 1, whole), rest |-> limit - Bytes(SubSeq(full, 1, whole))]

NoData == [chars |-> << >>, rest |-> 0]

\* announce_app_data_to_name: bytes that are not UTF-8 are no name.
announce_app_data_to_name(data) == IF data.rest = 0 THEN data.chars ELSE << >>

\* Mutant: the name first heard is kept.
RememberedOnce(list, server, name) ==
  IF \E i \in 1..Len(list) : list[i].hash = server THEN list
  ELSE Append(list, [hash |-> server, name |-> name])

\* remember_server: one entry per destination, with the name of the last
\* announce.  When an announce was heard is left out.
remember_server(list, server, name) ==
  IF \E i \in 1..Len(list) : list[i].hash = server
  THEN [i \in 1..Len(list) |->
          IF list[i].hash = server THEN [hash |-> server, name |-> name] ELSE list[i]]
  ELSE Append(list, [hash |-> server, name |-> name])
=============================================================================
