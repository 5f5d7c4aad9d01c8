---------------------------- MODULE SnapshotPanel ----------------------------
(***************************************************************************)
(* The snapshot page: the list the window shows (refresh_snapshot_panel),   *)
(* the picture opened from it and the thumbnails, both decoded on threads   *)
(* of their own while the user goes on selecting, deleting and clearing     *)
(* (the callbacks of install_snapshot_callbacks and snapshot_grid.rs).      *)
(*                                                                          *)
(* One display; the whole list is in view; a slot without a picture is a    *)
(* tile of its own.  A newer selection, or a cleared preview, voids the     *)
(* decode under way (PREVIEW_SEQUENCE): of the decodes only the one not yet *)
(* void is kept here.                                                       *)
(***************************************************************************)
EXTENDS Integers, FiniteSets

CONSTANTS
  MaxSlots,     \* bounds the slots of the database
  MaxPictures,  \* bounds the pictures taken
  MaxClears,    \* bounds the times all data is cleared
  NoSlot,       \* no slot has the id
  Omitted,      \* the slot has no picture: nothing taken, or deleted
  NoDecode      \* nothing under way

SlotIds == 1..MaxSlots
Pictures == 1..MaxPictures
NoPicture == 0
NoSelection == 0
Unread == -1
Decodes == [slot : SlotIds, got : Pictures \cup {NoPicture, Unread}]

ASSUME PanelAssumption ==
  /\ MaxSlots \in Nat \ {0} /\ {MaxPictures, MaxClears} \subseteq Nat
  /\ NoSlot # Omitted /\ {NoSlot, Omitted} \cap Pictures = {}
  /\ NoDecode \notin Decodes

VARIABLES
  slots,         \* the database: what each slot holds
  taken,         \* pictures taken so far
  cleared,       \* times the data was cleared
  dataChanged,   \* the timer has not seen yet that the data is another
  panelOpen,     \* the page is on screen
  panel,         \* SnapshotUiState::slots: the list as it was read
  tiles,         \* the rows of the window: the thumbnail of each listed slot
  chosen,        \* SnapshotUiState::selected_slot_id
  picture,       \* the preview
  opening,       \* the decode of the preview: the slot, and what was read of it
  thumbsWanted,  \* slots the newest load_thumbnails still has to decode
  thumbsDone,    \* thumbnails on their way to the window
  doomed         \* ticked slots a thread is about to delete

panelVars == <<slots, taken, cleared, dataChanged, panelOpen, panel, tiles, chosen, picture,
               opening, thumbsWanted, thumbsDone, doomed>>
databaseVars == <<slots, taken, cleared, dataChanged>>
previewVars == <<chosen, picture, opening>>
listVars == <<panel, tiles, thumbsWanted>>

PanelTypeOK ==
  /\ slots \in [SlotIds -> Pictures \cup {NoSlot, Omitted}]
  /\ panel \in [SlotIds -> Pictures \cup {NoSlot, Omitted}]
  /\ tiles \in [SlotIds -> Pictures \cup {NoPicture, NoSlot}]
  /\ chosen \in SlotIds \cup {NoSelection} /\ picture \in Pictures \cup {NoPicture}
  /\ opening \in Decodes \cup {NoDecode}
  /\ thumbsWanted \subseteq SlotIds /\ thumbsDone \subseteq SlotIds \X Pictures
  /\ doomed \subseteq SlotIds /\ panelOpen \in BOOLEAN /\ dataChanged \in BOOLEAN

NoSlots == [i \in SlotIds |-> NoSlot]

PanelInit ==
  /\ slots = NoSlots /\ taken = 0 /\ cleared = 0 /\ dataChanged = FALSE
  /\ panelOpen = FALSE /\ panel = NoSlots /\ tiles = NoSlots
  /\ chosen = NoSelection /\ picture = NoPicture /\ opening = NoDecode
  /\ thumbsWanted = {} /\ thumbsDone = {} /\ doomed = {}

-----------------------------------------------------------------------------
(* The database, as the scheduler and other threads change it. *)

\* slot_id is INTEGER PRIMARY KEY: one more than the largest there is.
FreeSlot == CHOOSE i \in SlotIds : slots[i] = NoSlot /\ \A j \in SlotIds : slots[j] # NoSlot => j < i

HasRoom == slots[MaxSlots] = NoSlot

Captured ==
  /\ HasRoom /\ taken < MaxPictures
  /\ slots' = [slots EXCEPT ![FreeSlot] = taken + 1]
  /\ taken' = taken + 1
  /\ UNCHANGED <<cleared, dataChanged, panelOpen, listVars, previewVars, thumbsDone, doomed>>

CaptureOmitted ==
  /\ HasRoom
  /\ slots' = [slots EXCEPT ![FreeSlot] = Omitted]
  /\ UNCHANGED <<taken, cleared, dataChanged, panelOpen, listVars, previewVars, thumbsDone, doomed>>

Emptied(ids) == [i \in SlotIds |-> IF i \in ids /\ slots[i] \in Pictures THEN Omitted ELSE slots[i]]

\* Retention empties a slot; the slot itself stays listed.
RetentionEmpties(i) ==
  /\ slots[i] \in Pictures
  /\ slots' = Emptied({i})
  /\ UNCHANGED <<taken, cleared, dataChanged, panelOpen, listVars, previewVars, thumbsDone, doomed>>

\* All data is cleared, and dataset_changed says so.
ClearedAll ==
  /\ cleared < MaxClears
  /\ slots' = NoSlots /\ cleared' = cleared + 1 /\ dataChanged' = TRUE
  /\ UNCHANGED <<taken, panelOpen, listVars, previewVars, thumbsDone, doomed>>

\* The thread of snapshot-delete-checked.
DeletesTicked ==
  /\ doomed # {}
  /\ slots' = Emptied(doomed) /\ doomed' = {}
  /\ UNCHANGED <<taken, cleared, dataChanged, panelOpen, listVars, previewVars, thumbsDone>>

-----------------------------------------------------------------------------
(* The window. *)

\* As ClearPreview, by a bug: the decode under way goes on.
ClearPreviewOnly ==
  /\ picture' = NoPicture
  /\ UNCHANGED opening

\* clear_snapshot_preview.
ClearPreview ==
  /\ picture' = NoPicture
  /\ opening' = NoDecode

\* A thumbnail decoded before stays, whatever became of its slot.
CarriedOver(i) == IF tiles[i] = NoSlot THEN NoPicture ELSE tiles[i]

\* refresh_snapshot_panel, up to the selection: the list and its thumbnails.
ListedAgain ==
  /\ panel' = slots
  /\ tiles' = [i \in SlotIds |-> IF slots[i] = NoSlot THEN NoSlot ELSE CarriedOver(i)]
  /\ thumbsWanted' = {i \in SlotIds : slots[i] \in Pictures /\ CarriedOver(i) = NoPicture}

\* snapshot-row-selected: the slot is opened, as the list has it.
OpenSlot(i, list) ==
  /\ chosen' = i
  /\ IF list[i] \in Pictures
       THEN opening' = [slot |-> i, got |-> Unread] /\ UNCHANGED picture
       ELSE ClearPreview

\* refresh_snapshot_panel.
Refreshed ==
  /\ panelOpen /\ ~dataChanged
  /\ ListedAgain
  /\ IF chosen # NoSelection /\ slots[chosen] # NoSlot
       THEN UNCHANGED previewVars
       ELSE chosen' = NoSelection /\ ClearPreview
  /\ UNCHANGED <<databaseVars, panelOpen, thumbsDone, doomed>>

\* The page is left, or settings cover it; showing it again refreshes.
PanelLeft ==
  /\ panelOpen /\ panelOpen' = FALSE
  /\ UNCHANGED <<databaseVars, listVars, previewVars, thumbsDone, doomed>>

PanelShown ==
  /\ ~panelOpen /\ panelOpen' = TRUE
  /\ ListedAgain
  /\ IF chosen # NoSelection /\ slots[chosen] # NoSlot
       THEN UNCHANGED previewVars
       ELSE chosen' = NoSelection /\ ClearPreview
  /\ UNCHANGED <<databaseVars, thumbsDone, doomed>>

Selected(i) ==
  /\ panelOpen /\ panel[i] # NoSlot
  /\ OpenSlot(i, panel)
  /\ UNCHANGED <<databaseVars, panelOpen, listVars, thumbsDone, doomed>>

Older(i) == {j \in SlotIds : j < i /\ panel[j] \in Pictures}
Newer(i) == {j \in SlotIds : j > i /\ panel[j] \in Pictures}

\* snapshot_grid::neighbour, first towards the older: the list is newest first.
Neighbour(i) ==
  IF Older(i) # {} THEN CHOOSE j \in Older(i) : \A k \in Older(i) : k <= j
  ELSE IF Newer(i) # {} THEN CHOOSE j \in Newer(i) : \A k \in Newer(i) : j <= k
  ELSE NoSelection

\* snapshot-delete-selected; the list is read again at once.
DeleteChosen ==
  LET next == Neighbour(chosen) IN
  /\ panelOpen /\ chosen # NoSelection /\ slots[chosen] \in Pictures
  /\ slots' = Emptied({chosen})
  /\ panel' = slots'
  /\ tiles' = [i \in SlotIds |-> IF slots[i] = NoSlot THEN NoSlot ELSE CarriedOver(i)]
  /\ thumbsWanted' = {i \in SlotIds : slots'[i] \in Pictures /\ CarriedOver(i) = NoPicture}
  /\ IF next # NoSelection /\ slots[next] # NoSlot
       THEN OpenSlot(next, slots')
       ELSE chosen' = NoSelection /\ ClearPreview
  /\ UNCHANGED <<taken, cleared, dataChanged, panelOpen, thumbsDone, doomed>>

\* The same while another thread has taken the storage again: the list stays
\* as it was, and the tile at the old place, the deleted one, is opened.
DeleteChosenUnread ==
  /\ panelOpen /\ chosen # NoSelection /\ slots[chosen] \in Pictures
  /\ panel[chosen] # NoSlot
  /\ slots' = Emptied({chosen})
  /\ OpenSlot(chosen, panel)
  /\ UNCHANGED <<taken, cleared, dataChanged, panelOpen, listVars, thumbsDone, doomed>>

\* snapshot-delete-checked: what is ticked is of the list.
DeleteTicked(ids) ==
  /\ panelOpen /\ doomed = {} /\ \A i \in ids : panel[i] \in Pictures
  /\ doomed' = ids
  /\ IF chosen \in ids THEN chosen' = NoSelection /\ ClearPreview ELSE UNCHANGED previewVars
  /\ UNCHANGED <<databaseVars, panelOpen, listVars, thumbsDone>>

\* The timer finds that the data is another.
StartsAfresh ==
  /\ dataChanged /\ dataChanged' = FALSE
  /\ panel' = NoSlots /\ chosen' = NoSelection
  /\ ClearPreview
  /\ UNCHANGED <<slots, taken, cleared, panelOpen, tiles, thumbsWanted, thumbsDone, doomed>>

-----------------------------------------------------------------------------
(* The threads that decode. *)

\* load_snapshot_image fails for a slot without a picture.
PreviewIsRead ==
  /\ opening # NoDecode /\ opening.got = Unread
  /\ opening' = [opening EXCEPT !.got =
       IF slots[opening.slot] \in Pictures THEN slots[opening.slot] ELSE NoPicture]
  /\ UNCHANGED <<databaseVars, panelOpen, listVars, chosen, picture, thumbsDone, doomed>>

PreviewIsShown ==
  /\ opening # NoDecode /\ opening.got # Unread
  /\ picture' = opening.got /\ opening' = NoDecode
  /\ UNCHANGED <<databaseVars, panelOpen, listVars, chosen, thumbsDone, doomed>>

ThumbIsRead(i) ==
  /\ i \in thumbsWanted
  /\ thumbsWanted' = thumbsWanted \ {i}
  /\ thumbsDone' = IF slots[i] \in Pictures THEN thumbsDone \cup {<<i, slots[i]>>} ELSE thumbsDone
  /\ UNCHANGED <<databaseVars, panelOpen, panel, tiles, previewVars, doomed>>

ThumbIsShown(done) ==
  /\ thumbsDone' = thumbsDone \ {done}
  /\ tiles' = IF tiles[done[1]] = NoSlot THEN tiles ELSE [tiles EXCEPT ![done[1]] = done[2]]
  /\ UNCHANGED <<databaseVars, panelOpen, panel, thumbsWanted, previewVars, doomed>>

PanelNext ==
  \/ Captured \/ CaptureOmitted \/ ClearedAll \/ DeletesTicked
  \/ Refreshed \/ PanelLeft \/ PanelShown
  \/ DeleteChosen \/ DeleteChosenUnread \/ StartsAfresh
  \/ PreviewIsRead \/ PreviewIsShown
  \/ \E i \in SlotIds : RetentionEmpties(i) \/ Selected(i) \/ ThumbIsRead(i)
  \/ \E ids \in SUBSET SlotIds \ {{}} : DeleteTicked(ids)
  \/ \E done \in thumbsDone : ThumbIsShown(done)

PanelSpec == PanelInit /\ [][PanelNext]_panelVars

-----------------------------------------------------------------------------
\* Once no picture is being opened, the one on display is that of the tile
\* chosen: a slower decode never replaces a newer choice, and a picture the
\* user deleted, or one no longer listed, does not come back when its decode
\* ends.  (Between a clear and the timer's next turn the window may still show
\* what it did; a picture that retention took away stays until another choice.)
PreviewIsChosen ==
  opening = NoDecode /\ picture # NoPicture /\ ~dataChanged =>
    chosen # NoSelection /\ panel[chosen] \in {picture, Omitted}

\* The tile of a slot listed without a picture shows none: what was deleted
\* is not left on display.
DeletedIsNotShown ==
  \A i \in SlotIds : panel[i] = Omitted => tiles[i] \in {NoSlot, NoPicture}
=============================================================================
