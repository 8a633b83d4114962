------------------------------- MODULE MPHost -------------------------------
(***************************************************************************)
(* A DS that acts as a multiplayer host: the table of clients in shared    *)
(* memory, the requests that the ARM9 leaves there for the ARM7, and the   *)
(* fields of the beacon frame in MAC RAM that the ARM7 keeps up to date.   *)
(*                                                                         *)
(* Three actors take turns: the ARM9, which runs the library calls of the  *)
(* application; Wifi_NTR_Update() on the ARM7; and the WiFi interrupt of   *)
(* the ARM7, which handles the frames of the clients and may happen        *)
(* between any two steps of Wifi_NTR_Update().  A function of the table    *)
(* runs with the interrupts of the ARM7 disabled and is one step: nobody   *)
(* else writes the table.  Most of them also take its spinlock (module     *)
(* Spinlock) against the ARM9, which only reads it.  KickByAID doesn't;    *)
(* what the ARM9 reads meanwhile isn't modelled.  Mode "idle" stands for   *)
(* all the modes in which the DS isn't a host.                             *)
(***************************************************************************)
EXTENDS Integers, FiniteSets, Sequences

CONSTANTS Mac,          \* MAC addresses of the clients
          NoMac,        \* MAC address of an entry full of zeroes
          MaxClients,   \* WIFI_MAX_MULTIPLAYER_CLIENTS
          KickBits,     \* width of reqKickClientAIDMask, a u8
          MaxCalls      \* bound: calls of the application

ASSUME MPHostAssumption == /\ NoMac \notin Mac
                           /\ MaxClients \in Nat \ {0}
                           /\ KickBits \in Nat \ {0}
                           /\ MaxCalls \in Nat

Slot == 0 .. MaxClients - 1     \* indices of clients.list[]
AID  == 1 .. MaxClients
Bits == 0 .. KickBits - 1       \* what a bit mask of that width can hold

Modes   == {"idle", "ap"}
Libs    == {"host", "other"}    \* DSWIFI_MULTIPLAYER_HOST, and the rest
Layouts == {"dswifi", "raw"}    \* DSWIFI_BEACON_LAYOUT_xxx
APP     == -1                   \* a byte of the beacon with data of the application

VARIABLES
    \* Written by the ARM9
    reqMode, reqLib,    \* requested mode and library mode
    reqMax,             \* requested maximum number of clients
    allow,              \* WFLAG_REQ_ALLOWCLIENTS in reqFlags
    layout,             \* beaconExtraDataLayout
    kickReq,            \* clients.reqKickClientAIDMask, cleared by the ARM7
    load,               \* register of the ARM9 in the middle of kickReq |= BIT(aid)
    queue,              \* beacon frames in the TX ring buffer
    \* Written by the ARM7
    curMode, curLib, curMax, list, num, aidMask,
    pc, mask,           \* Wifi_NTR_Update(): next step, its copy of kickReq
    beacon,             \* the beacon frame in MAC RAM
    curAllow,           \* beacon_allows_connections
    \* What happened, for the properties
    calls,              \* how many calls the application has made
    closing             \* how far an Update got since "allow" was last written

table    == <<list, num, aidMask>>
requests == <<reqMode, reqLib, reqMax, allow>>
mode     == <<curMode, curLib, curMax>>
update   == <<pc, mask>>
air      == <<beacon, curAllow>>
vars == <<requests, layout, kickReq, load, queue, mode, table, update, air, calls,
          closing>>

Cleared == [state |-> "DISCONNECTED", mac |-> NoMac, aid |-> 0]

NotLoading == [aid |-> 0, old |-> {}]

Init == /\ reqMode = "idle" /\ reqLib = "other" /\ reqMax = 0 /\ allow = FALSE
        /\ layout = "raw" /\ kickReq = {} /\ load = NotLoading /\ queue = <<>>
        /\ curMode = "idle" /\ curLib = "other" /\ curMax = 0
        /\ list = [i \in Slot |-> Cleared] /\ num = 0 /\ aidMask = {}
        /\ pc = "idle" /\ mask = {}
        /\ beacon = [on |-> FALSE, kind |-> "none", players |-> APP, allows |-> APP]
        /\ curAllow = FALSE
        /\ calls = 0 /\ closing = "none"

Connected(l) == {i \in Slot : l[i].state # "DISCONNECTED"}
InState(l, s) == {i \in Slot : l[i].state = s}

-----------------------------------------------------------------------------
(* The beacon frame in MAC RAM *)

\* Only a DSWifi beacon that is being sent has the fields that the ARM7 updates.
FieldsWritable == beacon.kind # "none" /\ layout = "dswifi" /\ beacon.on

Wifi_SetBeaconCurrentPlayers(n) ==
    beacon' = IF FieldsWritable THEN [beacon EXCEPT !.players = n] ELSE beacon

Wifi_SetBeaconAllowsConnections(b) ==
    /\ curAllow' = b
    /\ beacon' = IF FieldsWritable THEN [beacon EXCEPT !.allows = IF b THEN 1 ELSE 0]
                                   ELSE beacon

-----------------------------------------------------------------------------
(* The table of clients *)

\* The table after a critical section that leaves it with these contents.
Table(l, n, m) == list' = l /\ num' = n /\ aidMask' = m

\* Mutant: only the clients that have finished associating are found.
MutantOnlyAssociated(m) == {i \in Slot : i < curMax /\ list[i].state = "ASSOCIATED" /\ list[i].mac = m}

Wifi_MPHost_ClientGetByMacAddr(m) ==
    {i \in Slot : i < curMax /\ list[i].state # "DISCONNECTED" /\ list[i].mac = m}

\* Mutant: an entry that isn't associated counts as free.
MutantNotAssociated == {i \in Slot : i < curMax /\ list[i].state # "ASSOCIATED"}

FreeSlots == {i \in Slot : i < curMax /\ list[i].state = "DISCONNECTED"}

Lowest(S) == CHOOSE i \in S : \A j \in S : i <= j

Wifi_MPHost_ResetClients ==
    /\ Table([i \in Slot |-> Cleared], 0, {0})
    /\ Wifi_SetBeaconCurrentPlayers(1)

\* Mutant: the mask keeps the AID of a client that authenticates again.
MutantKeepMask(i) ==
    /\ Table([list EXCEPT ![i].state = "AUTHENTICATED"], num, aidMask)
    /\ UNCHANGED beacon

\* Mutant: a client that authenticates again counts twice.
MutantCountAgain(i) ==
    /\ Table([list EXCEPT ![i].state = "AUTHENTICATED"], num + 1, aidMask \ {list[i].aid})
    /\ UNCHANGED beacon

\* A known MAC goes back to authenticated.  Its old AID is 0 if it never had one.
AuthenticateKnown(i) ==
    /\ Table([list EXCEPT ![i].state = "AUTHENTICATED"], num, aidMask \ {list[i].aid})
    /\ UNCHANGED beacon

\* The rest of the entry, with the AID of its previous user, stays as it was.
AuthenticateNew(i, m) ==
    /\ Table([list EXCEPT ![i].state = "AUTHENTICATED", ![i].mac = m], num + 1, aidMask)
    /\ Wifi_SetBeaconCurrentPlayers(num + 2)

Wifi_MPHost_ClientAuthenticate(m) ==
    LET known == Wifi_MPHost_ClientGetByMacAddr(m)
    IN /\ allow
       /\ \/ known # {} /\ AuthenticateKnown(Lowest(known))
          \/ known = {} /\ FreeSlots # {} /\ AuthenticateNew(Lowest(FreeSlots), m)

\* Mutant: AIDs are given out in order of arrival.
MutantAidByCount(m) ==
    LET known == Wifi_MPHost_ClientGetByMacAddr(m)
        i == Lowest(known)
    IN /\ allow /\ known # {} /\ list[i].state = "AUTHENTICATED"
       /\ Table([list EXCEPT ![i].state = "ASSOCIATED", ![i].aid = num],
                num, aidMask \cup {num})
       /\ UNCHANGED beacon

Wifi_MPHost_ClientAssociate(m) ==
    LET known == Wifi_MPHost_ClientGetByMacAddr(m)
        i == Lowest(known)
    IN /\ allow /\ known # {} /\ list[i].state = "AUTHENTICATED"
       /\ Table([list EXCEPT ![i].state = "ASSOCIATED", ![i].aid = i + 1],
                num, aidMask \cup {i + 1})
       /\ UNCHANGED beacon

\* Mutant: the mask is left alone.
MutantKeepBit(m) ==
    LET known == Wifi_MPHost_ClientGetByMacAddr(m)
        i == Lowest(known)
    IN /\ known # {}
       /\ Table([list EXCEPT ![i].state = "DISCONNECTED"], num - 1, aidMask)
       /\ Wifi_SetBeaconCurrentPlayers(num)

Wifi_MPHost_ClientDisconnect(m) ==
    LET known == Wifi_MPHost_ClientGetByMacAddr(m)
        i == Lowest(known)
    IN /\ known # {}
       /\ Table([list EXCEPT ![i].state = "DISCONNECTED"], num - 1, aidMask \ {list[i].aid})
       /\ Wifi_SetBeaconCurrentPlayers(num)

\* Mutant: a client that has left is kicked again.
MutantKickEmpty(a) ==
    LET i == a - 1
    IN IF a # 0 /\ i < curMax
       THEN /\ Table([list EXCEPT ![i].state = "DISCONNECTED"], num - 1, aidMask \ {a})
            /\ Wifi_SetBeaconCurrentPlayers(num)
       ELSE UNCHANGED <<table, beacon>>

Wifi_MPHost_KickByAID(a) ==
    LET i == a - 1
    IN IF a # 0 /\ i < curMax /\ i \in Connected(list)
       THEN /\ Table([list EXCEPT ![i].state = "DISCONNECTED"], num - 1, aidMask \ {a})
            /\ Wifi_SetBeaconCurrentPlayers(num)
       ELSE UNCHANGED <<table, beacon>>

Wifi_MPHost_KickNotAssociatedClients ==
    LET out == {i \in InState(list, "AUTHENTICATED") : i < curMax}
        left == num - Cardinality(out)
    IN /\ Table([i \in Slot |-> IF i \in out THEN [list[i] EXCEPT !.state = "DISCONNECTED"]
                                             ELSE list[i]],
                left, aidMask \ {i + 1 : i \in out})
       /\ Wifi_SetBeaconCurrentPlayers(left + 1)

-----------------------------------------------------------------------------
(* The interrupt of the ARM7.  A frame that changes nothing isn't a step.  *)

NotTable == <<requests, layout, kickReq, load, queue, mode, update, curAllow, closing>>

Wifi_MPHost_ProcessAuthentication(m) ==
    /\ curMode = "ap"
    /\ Wifi_MPHost_ClientAuthenticate(m)
    /\ UNCHANGED NotTable

Wifi_MPHost_ProcessAssocRequest(m) ==
    /\ curMode = "ap"
    /\ Wifi_MPHost_ClientAssociate(m)
    /\ UNCHANGED NotTable

Wifi_MPHost_ProcessDeauthentication(m) ==
    /\ curMode = "ap"
    /\ Wifi_MPHost_ClientDisconnect(m)
    /\ UNCHANGED NotTable

\* Wifi_TxArm9QueueFlush() finds a beacon.  It doesn't check the current mode.
\* Wifi_BeaconSetup() stops the beacons if the frame is too small to be one, but
\* Wifi_BeaconStartInternal(), which is alone in sending frames as beacons,
\* always writes the fixed fields and some of the variable ones.
Wifi_BeaconSetup ==
    /\ queue # <<>>
    /\ queue' = Tail(queue)
    /\ curAllow' = allow
    /\ beacon' = [Head(queue) EXCEPT !.on = TRUE]
    /\ UNCHANGED <<requests, layout, kickReq, load, mode, table, update, closing>>

-----------------------------------------------------------------------------
(* Wifi_NTR_Update() *)

Goto(l) == pc' = l

\* The library mode only changes while the ARM7 does nothing.
UpdateNormal ==
    /\ pc = "idle" /\ curMode = "idle" /\ reqMode # "ap"
    /\ curLib' = reqLib
    /\ UNCHANGED <<requests, layout, kickReq, load, queue, curMode, curMax, table, update, air, closing>>

UpdateStartHost ==
    /\ pc = "idle" /\ curMode = "idle" /\ reqMode = "ap"
    /\ Wifi_MPHost_ResetClients
    /\ curLib' = reqLib
    /\ curMax' = reqMax
    /\ curMode' = "ap"
    /\ UNCHANGED <<requests, layout, kickReq, load, queue, update, curAllow, closing>>

\* What makes the ARM7 leave host mode.
Leaves == reqMode # "ap" \/ curLib # reqLib

\* Wifi_MPHost_ClientKickAll()
UpdateKickAll ==
    /\ pc = "idle" /\ curMode = "ap" /\ Leaves
    /\ Wifi_MPHost_ResetClients
    /\ Goto("stop")
    /\ UNCHANGED <<requests, layout, kickReq, load, queue, mode, mask, curAllow, closing>>

\* Wifi_BeaconStop() and the change of mode
UpdateStopHost ==
    /\ pc = "stop"
    /\ beacon' = [beacon EXCEPT !.on = FALSE]
    /\ curMode' = "idle"
    /\ Goto("idle")
    /\ UNCHANGED <<requests, layout, kickReq, load, queue, curLib, curMax, table, mask, curAllow, closing>>

UpdateReadKicks ==
    /\ pc = "idle" /\ curMode = "ap" /\ ~Leaves
    /\ mask' = kickReq
    /\ Goto(IF kickReq = {} THEN "allow" ELSE "clear")
    /\ closing' = IF closing = "written" THEN "running" ELSE closing
    /\ UNCHANGED <<requests, layout, kickReq, load, queue, mode, table, air>>

UpdateClearKicks ==
    /\ pc = "clear"
    /\ kickReq' = {}
    /\ Goto("kick")
    /\ UNCHANGED <<requests, layout, load, queue, mode, table, mask, air, closing>>

UpdateKick ==
    /\ pc = "kick" /\ mask # {}
    /\ Wifi_MPHost_KickByAID(Lowest(mask))
    /\ mask' = mask \ {Lowest(mask)}
    /\ UNCHANGED <<requests, layout, kickReq, load, queue, mode, pc, curAllow, closing>>

UpdateKicksDone ==
    /\ pc = "kick" /\ mask = {}
    /\ Goto("allow")
    /\ UNCHANGED <<requests, layout, kickReq, load, queue, mode, table, mask, air, closing>>

Finished == IF closing = "running" THEN "done" ELSE closing

\* Mutant: only closing the room is noticed.
MutantOnlyCloses ==
    /\ pc = "allow"
    /\ IF curAllow /\ ~allow
       THEN Wifi_SetBeaconAllowsConnections(FALSE) /\ Goto("shut") /\ closing' = closing
       ELSE UNCHANGED air /\ Goto("idle") /\ closing' = Finished
    /\ UNCHANGED <<requests, layout, kickReq, load, queue, mode, table, mask>>

UpdateAllow ==
    /\ pc = "allow"
    /\ IF curAllow = allow THEN UNCHANGED air ELSE Wifi_SetBeaconAllowsConnections(allow)
    /\ IF curAllow /\ ~allow THEN Goto("shut") /\ closing' = closing
                             ELSE Goto("idle") /\ closing' = Finished
    /\ UNCHANGED <<requests, layout, kickReq, load, queue, mode, table, mask>>

UpdateShut ==
    /\ pc = "shut"
    /\ Wifi_MPHost_KickNotAssociatedClients
    /\ Goto("idle") /\ closing' = Finished
    /\ UNCHANGED <<requests, layout, kickReq, load, queue, mode, mask, curAllow>>

-----------------------------------------------------------------------------
(* The library calls of the ARM9 *)

\* The ARM9 is in the middle of no call: Wifi_InternetMode() stores the library
\* mode before the mode, Wifi_MultiplayerKickClientByAID() loads before it stores.
Idle == ~(reqLib = "other" /\ reqMode = "ap") /\ load = NotLoading

Wifi_MultiplayerHostMode(n) ==
    /\ Idle
    /\ reqLib' = "host" /\ reqMax' = n /\ reqMode' = "ap" /\ allow' = TRUE
    /\ closing' = "written"
    /\ UNCHANGED <<layout, kickReq, load, queue, mode, table, update, air>>

\* The first store of Wifi_InternetMode() or Wifi_MultiplayerClientMode(); the
\* second one is that of Wifi_IdleMode().
LeaveLibrary ==
    /\ Idle /\ reqLib = "host"
    /\ reqLib' = "other"
    /\ UNCHANGED <<reqMode, reqMax, allow, layout, kickReq, load, queue, mode, table, update,
                   air, closing>>

Wifi_IdleMode ==
    /\ reqMode = "ap" /\ load = NotLoading
    /\ reqMode' = "idle"
    /\ UNCHANGED <<reqLib, reqMax, allow, layout, kickReq, load, queue, mode, table, update,
                   air, closing>>

Wifi_MultiplayerAllowNewClients(b) ==
    /\ Idle
    /\ allow' = b
    /\ closing' = "written"
    /\ UNCHANGED <<reqMode, reqLib, reqMax, layout, kickReq, load, queue, mode, table, update,
                   air>>

\* The byte is read, and written later: the ARM7 may clear it in between.
KickClientLoad(a) ==
    /\ Idle
    /\ load' = [aid |-> a, old |-> kickReq]
    /\ UNCHANGED <<requests, layout, kickReq, queue, mode, table, update, air,
                   closing>>

\* BIT(aid) loses the bits that don't fit in the byte.
KickClientStore ==
    /\ load # NotLoading
    /\ kickReq' = (load.old \cup {load.aid}) \cap Bits
    /\ load' = NotLoading
    /\ UNCHANGED <<requests, layout, queue, mode, table, update, air, closing>>

BeaconFrame(lay) ==
    [on |-> FALSE, kind |-> lay,
     players |-> IF lay = "dswifi" THEN 1 ELSE APP,
     allows |-> IF lay = "dswifi" THEN (IF allow THEN 1 ELSE 0) ELSE APP]

\* Wifi_BeaconStart() and Wifi_BeaconStartEx(): the layout of the new frame is
\* published even if there is no room for the frame in the buffer.  The
\* documentation asks applications to call them while in host mode.
Wifi_BeaconStart(lay) ==
    /\ curMode = "ap" /\ reqMode = "ap" /\ Idle
    /\ layout' = lay
    /\ queue' \in {queue, Append(queue, BeaconFrame(lay))}
    /\ UNCHANGED <<requests, kickReq, load, mode, table, update, air, closing>>

-----------------------------------------------------------------------------
Interrupt == \/ \E m \in Mac : \/ Wifi_MPHost_ProcessAuthentication(m)
                               \/ Wifi_MPHost_ProcessAssocRequest(m)
                               \/ Wifi_MPHost_ProcessDeauthentication(m)
             \/ Wifi_BeaconSetup

Wifi_NTR_Update == \/ UpdateNormal \/ UpdateStartHost \/ UpdateKickAll \/ UpdateStopHost
                   \/ UpdateReadKicks \/ UpdateClearKicks
                   \/ UpdateKick \/ UpdateKicksDone
                   \/ UpdateAllow \/ UpdateShut

Call == \/ \E n \in AID : Wifi_MultiplayerHostMode(n) \/ KickClientLoad(n)
        \/ LeaveLibrary
        \/ Wifi_IdleMode
        \/ \E b \in BOOLEAN : Wifi_MultiplayerAllowNewClients(b)
        \/ \E lay \in Layouts : Wifi_BeaconStart(lay)

Arm9 == \/ KickClientStore /\ UNCHANGED calls
        \/ Call /\ calls < MaxCalls /\ calls' = calls + 1

Arm7 == (Interrupt \/ Wifi_NTR_Update) /\ UNCHANGED calls

Next == Arm7 \/ Arm9

Spec == Init /\ [][Next]_vars

-----------------------------------------------------------------------------
(* Properties *)

Entry == [state : {"DISCONNECTED", "AUTHENTICATED", "ASSOCIATED"},
          mac : Mac \cup {NoMac}, aid : 0 .. MaxClients]

Frame == [on : BOOLEAN, kind : Layouts \cup {"none"},
          players : {APP} \cup 1 .. MaxClients + 1, allows : {APP, 0, 1}]

\* The types of the variables.  In particular the number of players that the
\* ARM7 writes in the beacon stays between 1 and MaxClients + 1, and the u8
\* num_connected never wraps around below 0.
TypeOK ==
    /\ reqMode \in Modes /\ curMode \in Modes
    /\ reqLib \in Libs /\ curLib \in Libs
    /\ reqMax \in 0 .. MaxClients /\ curMax \in 0 .. MaxClients
    /\ allow \in BOOLEAN /\ curAllow \in BOOLEAN
    /\ layout \in Layouts /\ beacon \in Frame
    /\ queue \in Seq(Frame)
    /\ load \in [aid : 0 .. MaxClients, old : SUBSET Bits]
    /\ kickReq \subseteq Bits /\ mask \subseteq Bits
    /\ list \in [Slot -> Entry] /\ num \in 0 .. MaxClients
    /\ aidMask \subseteq 0 .. MaxClients
    /\ pc \in {"idle", "clear", "kick", "allow", "shut", "stop"}
    /\ calls \in 0 .. MaxCalls
    /\ closing \in {"none", "written", "running", "done"}

\* num_connected, which the ARM7 updates one by one in every function that adds
\* or removes a client, is the number of entries of the table in use.
CountExact == num = Cardinality(Connected(list))

\* aid_mask, "Mask of AIDs of clients currently associated (not authenticated!)",
\* has the AIDs of the associated clients and no others, apart from bit 0.  It is
\* what the ARM9 reports as players and what CMD frames poll.
AidMaskExact == aidMask \ {0} = {list[i].aid : i \in InState(list, "ASSOCIATED")}

\* The AID that a client was given is the index of its entry plus 1, which is
\* what Wifi_MPHost_KickByAID() and the ARM9 take it for.
AidIsIndex == \A i \in InState(list, "ASSOCIATED") : list[i].aid = i + 1

\* However its authentication and association frames are repeated, lost or
\* mixed with kicks, a console never has two entries of the table.
OneSlotPerMac ==
    \A i, j \in Connected(list) : list[i].mac = list[j].mac => i = j

\* A CMD frame reserves air time for num_connected replies and polls the clients
\* in aid_mask (Wifi_TxArm9QueueFlushByCmd()): it never polls more of them than
\* it has time for.
TimeForReplies == Cardinality(aidMask \ {0}) <= num

\* A client keeps its entry, and its AID, until it is disconnected: no step gives
\* the entry of a connected client to another one.
KeepsSlot ==
    [][\A i \in Connected(list) \cap Connected(list)' : list'[i].mac = list[i].mac]_vars

\* One complete Update after the application has opened or closed the room for
\* the last time, the ARM7 believes that the beacon announces what was asked for,
\* whichever beacons were set up and clients came and went on the way.
AllowApplied == closing = "done" => curAllow = allow

-----------------------------------------------------------------------------
(* What the documentation and the comments say, and the code doesn't do *)

Hosting == curMode = "ap"

\* dswifi9.h, Wifi_MultiplayerGetClientMask(): "Bit 0 is always set to 1 as it
\* represents the host".
HostBitSet == Hosting => 0 \in aidMask

\* dswifi9.h, Wifi_MultiplayerAllowNewClients(): "Disabling new connections will
\* kick all clients that are in the process of associating to this host but
\* haven't finished the process", at the end of the next complete Update.
CloseKicks == Hosting /\ closing = "done" /\ ~allow => InState(list, "AUTHENTICATED") = {}

\* beacon.c, Wifi_BeaconSetup(): "The ARM9 has just built this beacon from the
\* requested flags, so this is what it is announcing right now."
AnnouncesAllow == beacon.on /\ beacon.kind = "dswifi" /\ layout = "dswifi"
                    => beacon.allows = IF curAllow THEN 1 ELSE 0

\* dswifi_common.h: "Current number of players connected to the host (including
\* the host)", the field of the beacon that clients show to the user.
AnnouncesPlayers == Hosting /\ beacon.on /\ beacon.kind = "dswifi" /\ layout = "dswifi"
                      => beacon.players = num + 1

\* beacon.c, Wifi_SetBeaconCurrentPlayers(): "In any other layout these bytes
\* belong to the application."
AppDataKept == beacon.kind = "raw" => beacon.players = APP /\ beacon.allows = APP

\* dswifi9.h, Wifi_BeaconStart(): "When leaving AP mode, DSWifi will stop sending
\* them automatically."
BeaconOnlyHosting == beacon.on => Hosting
=============================================================================
