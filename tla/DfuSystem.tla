------------------------------ MODULE DfuSystem ------------------------------
(***************************************************************************)
(* The bootloader and a host that updates its firmware by DfuSe.  Every    *)
(* step is a step of DfuDevice with what the host makes of it: `host' is   *)
(* what the host may rely on, and no part of the device.                   *)
(***************************************************************************)
EXTENDS DfuDevice

CONSTANT Unknown   \* the host relies on nothing here

VARIABLE
  host  \* [view: what the host relies on, claim: what it may rely on once
        \*  its request is acknowledged, base: the address pointer it set,
        \*  waiting: its request is not acknowledged]

vars == <<bank, flash_ctx, dfuse_ctx, class, host>>

Init ==
  /\ DeviceInit
  /\ host = [view |-> [a \in Addr |-> Unknown], claim |-> Empty,
             base |-> Unknown, waiting |-> FALSE]

----------------------------------------------------------------------------
(* The host's requests.                                                    *)

\* The host sends req.  It relies no more on the area of the request; once
\* acknowledged it may rely on claim.
Send(req, area, claim, base) ==
  /\ Download(req)
  /\ host' = [view |-> [a \in Addr |-> IF a \in area THEN Unknown ELSE host.view[a]],
              claim |-> claim, base |-> base, waiting |-> TRUE]

SendGetCommands == Send(Command("GET_COMMANDS", 0), {}, Empty, host.base)

SendUnsupported ==
  \E kind \in {"MASS_ERASE", "OTHER"} : Send(Command(kind, 0), {}, Empty, host.base)

SendSetAddress ==
  \E addr \in SectorBases : Send(Command("SET_ADDRESS", addr), {}, Empty, Unknown)

SendErase ==
  \E addr \in SectorBases :
    LET sector == SectorAddrs(addr \div SECTOR)
    IN Send(Command("ERASE", addr), sector, [a \in sector |-> Erased], host.base)

\* A data block, relative to the pointer the host has set.  The host may rely
\* on a byte of it if it relied on the whole flash word being erased before.
SendData ==
  /\ host.base # Unknown
  /\ \E block \in Blocks, length \in Lengths, data \in Payload :
       LET req   == Request("DATA", 0, block, length, data)
           bytes == BlockBytes(host.base, req)
           fresh == {a \in bytes : \A b \in WordOf(a) : host.view[b] = Erased}
       IN /\ bytes \subseteq Addr
          /\ Send(req, UNION {WordOf(a) : a \in bytes},
                  [a \in fresh |-> <<data, a - HostAddr(host.base, block)>>], host.base)

\* The answer the class driver just gave reaches the host: dfuDNLOAD-IDLE with
\* status OK says that the request is done.
Acknowledged == class'.state = "DNLOAD_IDLE" /\ class'.status = "OK"

Poll ==
  /\ GetStatus
  /\ host' = IF host.waiting /\ Acknowledged
             THEN [view |-> Over(host.claim, host.view), claim |-> Empty,
                   base |-> IF class.req.kind = "SET_ADDRESS"
                            THEN class.req.addr ELSE host.base,
                   waiting |-> FALSE]
             ELSE host

PollLost ==
  /\ "lostReply" \in Events
  /\ GetStatus
  /\ UNCHANGED host

\* The host gives its request up.
GiveUp(base) ==
  host' = [view |-> host.view, claim |-> Empty, base |-> base, waiting |-> FALSE]

Quit == DnloadEnd \/ Upload \/ Abort \/ ClrStatus \/ Reselect

HostNext ==
  \/ SendGetCommands \/ SendSetAddress \/ SendErase \/ SendUnsupported \/ SendData
  \/ Poll \/ PollLost
  \/ Quit /\ GiveUp(host.base)
  \/ Enumerate /\ GiveUp(0)
  \/ Unplug /\ GiveUp(Unknown)

Next ==
  \/ HostNext
  \/ (Start \/ MainLoop \/ Hardware) /\ UNCHANGED host
  \/ PowerCut /\ GiveUp(Unknown)

Spec == Init /\ [][Next]_vars

\* The main loop never stops and the hardware completes what it is given; the
\* host polls until its request is answered (a poll timeout is a delay).
FairSpec ==
  /\ Spec
  /\ WF_vars(MainLoop /\ UNCHANGED host)
  /\ WF_vars(Hardware /\ UNCHANGED host)
  /\ WF_vars(Poll)

----------------------------------------------------------------------------
(* Properties.                                                             *)

TypeOK ==
  /\ DeviceTypeOK
  /\ host = [view |-> host.view, claim |-> host.claim, base |-> host.base,
             waiting |-> host.waiting]
  /\ host.view \in [Addr -> Cell \cup {Unknown}]
  /\ IsImage(host.claim)
  /\ host.base \in Nat \cup {Unknown}
  /\ host.waiting \in BOOLEAN

\* What the device acknowledged is in the flash, and stays there: through
\* other requests, aborts, unplugging, lost answers and power cuts.  (GETSTATUS
\* answers dfuDNLOAD-IDLE on flash_is_busy alone.)
ReadBack == \A a \in Addr : host.view[a] # Unknown => bank.cells[a] = host.view[a]

\* The polling host gets an answer that ends its request.
DownloadAnswered == InProgress ~> ~InProgress

\* An operation the driver took ends, whatever the host does meanwhile.
DriverDrains == flash_is_busy ~> ~flash_is_busy
==============================================================================
