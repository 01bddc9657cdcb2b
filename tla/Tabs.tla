-------------------------------- MODULE Tabs --------------------------------
(***************************************************************************)
(* The tabs of a session (internal/tui/session.go): which regions they     *)
(* show, which of them is active, and what each change makes the client    *)
(* ask of the server.                                                      *)
(*                                                                         *)
(* An operation takes the session before it and returns the session after  *)
(* it with the requests sent, in order: [session |-> .., sends |-> ..].    *)
(* Tabs are numbered from 1; a session without tabs keeps 1 as its active  *)
(* tab.  Sessions of other names are invisible to this one and left out,   *)
(* so the tree is the sequence of the session's regions, empty when the    *)
(* session does not exist (the server removes a session with its last      *)
(* region).                                                                *)
(***************************************************************************)
EXTENDS Naturals, Sequences, SequencesExt

CONSTANT NoRegion

(* NewSessionLayer.  The name is "" until the server has answered. *)
NewSession(size) ==
    [name |-> "", tabs |-> <<>>, active |-> 1, pending |-> NoRegion, size |-> size]

activeRegionID(s) == IF s.tabs = <<>> THEN NoRegion ELSE s.tabs[s.active]

findTabIndex(s, r) == CHOOSE i \in DOMAIN s.tabs : s.tabs[i] = r

-----------------------------------------------------------------------------
(* Requests; the fields a request does not use are blank. *)
Ask(type, r, size) == [type |-> type, region |-> r, size |-> size, id |-> 0]

(* TerminalLayer.Activate and Deactivate, through SessionLayer's: without  *)
(* a tab there is nothing to do.                                           *)
Activate(s) ==
    IF s.tabs = <<>> THEN <<>>
    ELSE <<Ask("subscribe", activeRegionID(s), 0), Ask("resize", activeRegionID(s), s.size)>>

Deactivate(s) ==
    IF s.tabs = <<>> THEN <<>> ELSE <<Ask("unsubscribe", activeRegionID(s), 0)>>

(* Reconnect, and the request of initialSetup and ConnectedMsg. *)
Reconnect(s) == <<Ask("connect", NoRegion, s.size)>>

KillAllRegions(s) == [i \in DOMAIN s.tabs |-> Ask("kill", s.tabs[i], 0)]

-----------------------------------------------------------------------------
Same(s) == [session |-> s, sends |-> <<>>]

(* A defect: the index is kept, whatever tab it now names. *)
RestoredIndex(s, tabs) == IF s.active > Len(tabs) THEN Len(tabs) ELSE s.active

(* The active tab among the new ones: the region a SpawnResponse named, or *)
(* else the one that was active, or else the same place in the row.        *)
Restored(s, tabs) ==
    LET want == IF s.pending # NoRegion THEN s.pending ELSE activeRegionID(s)
        hits == {i \in DOMAIN tabs : tabs[i] = want}
    IN  IF tabs = <<>> THEN 1
        ELSE IF hits # {} THEN CHOOSE i \in hits : TRUE
        ELSE IF s.active > Len(tabs) THEN Len(tabs) ELSE s.active

(* The elements of q that are in S, in their order. *)
Keeping(S, q) == FoldLeft(LAMBDA kept, x : IF x \in S THEN Append(kept, x) ELSE kept, <<>>, q)

(* Tabs of regions that are gone go; new regions are added at the end. *)
SyncedTabs(s, regions) ==
    Keeping(ToSet(regions), s.tabs) \o Keeping(ToSet(regions) \ ToSet(s.tabs), regions)

WithTabs(s, tabs) ==
    [s EXCEPT !.tabs = tabs,
              !.active = Restored(s, tabs),
              !.pending = IF @ \in ToSet(tabs) THEN NoRegion ELSE @]

(* A change of the active region subscribes to the new one. *)
Resubscribed(s, t) ==
    [session |-> t,
     sends |-> IF activeRegionID(t) # activeRegionID(s) THEN Activate(t) ELSE <<>>]

(* syncFromTree.  A session whose name is not known yet, or that the tree  *)
(* does not have, keeps no tabs.                                           *)
syncFromTree(s, regions) ==
    IF s.name = "" THEN Same(s)
    ELSE IF regions = <<>> THEN Same([s EXCEPT !.tabs = <<>>, !.active = 1])
    ELSE Resubscribed(s, WithTabs(s, SyncedTabs(s, regions)))

(* A defect: the old region is left subscribed, the new one is not asked. *)
switchToTabSilently(s, idx) == Same([s EXCEPT !.active = idx])

switchToTab(s, idx) ==
    IF idx \notin DOMAIN s.tabs \/ idx = s.active THEN Same(s)
    ELSE LET t == [s EXCEPT !.active = idx]
         IN  [session |-> t, sends |-> Deactivate(s) \o Activate(t)]

(* "next-tab"; "prev-tab" and "switch-tab" reach the same tabs. *)
nextTab(s) == IF Len(s.tabs) <= 1 THEN Same(s) ELSE switchToTab(s, (s.active % Len(s.tabs)) + 1)

(* protocol.SpawnResponse: the tab exists, or will with a later tree event.*)
SpawnResponse(s, r) ==
    IF r \in ToSet(s.tabs) THEN switchToTab(s, findTabIndex(s, r))
    ELSE Same([s EXCEPT !.pending = r])

(* protocol.SessionConnectResponse: the tree may have come before the name.*)
SessionConnectResponse(s, treeKnown, regions) ==
    LET named == [s EXCEPT !.name = "main"]
    IN  IF treeKnown THEN syncFromTree(named, regions) ELSE Same(named)

(* tea.WindowSizeMsg reaches every tab, and each resizes its region. *)
WindowSize(s, size) ==
    [session |-> [s EXCEPT !.size = size],
     sends |-> [i \in DOMAIN s.tabs |-> Ask("resize", s.tabs[i], size)]]
=============================================================================
