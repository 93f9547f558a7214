--------------------------- MODULE FirmwareUpdate ---------------------------
(***************************************************************************)
(* The firmware update: an upload is streamed into the slot the program    *)
(* counter is not in, as a raw image or as UF2 blocks, and the device      *)
(* restarts from that slot.  Uploads may overlap, end early and fail.      *)
(*                                                                         *)
(*   firmware/src/ota.rs, http.rs OtaHandler, platform.rs, main.rs         *)
(*   bridge-core/src/ota.rs                                                *)
(*                                                                         *)
(* Flash is counted in pages, a UF2 block in the two pages it takes on the *)
(* wire and the one it carries.  A page holds an image's data for a place, *)
(* is erased, or is junk: writing to a page that is not erased only clears *)
(* bits.  An image's vector table, and its blocks' marks, are good or not; *)
(* blocks for one place carry the same data.  The boot ROM may map the     *)
(* slot it starts to the XIP base, or leave it where it is.  Once its own  *)
(* slot is changed the device may stop at any step; what it would then run *)
(* instead is not modelled.                                                *)
(***************************************************************************)
EXTENDS Integers, Sequences, FiniteSets

CONSTANTS
  Uploaders,    \* the web tasks
  Images,       \* files: [name, format, good, pages]: the places of its pages in the
                \* slot, in the file's order
  SECTOR,       \* pages of a sector: 16
  SLOT_B, PROTECTED,  \* where slot B and the settings begin: sector boundaries
  MAX_FIRMWARE_SIZE

ASSUME FlashAssumption ==
  /\ {SECTOR, SLOT_B, PROTECTED, MAX_FIRMWARE_SIZE} \subseteq Nat \ {0}
  /\ SLOT_B % SECTOR = 0 /\ PROTECTED % SECTOR = 0 /\ SLOT_B < PROTECTED
  /\ PROTECTED <= 2 * SLOT_B

VARIABLES
  flash,     \* page -> ERASED, JUNK, RUNNING or <<an image's name, place>>
  running,   \* the slot this boot runs from
  remapped,  \* external: the boot ROM maps that slot to the XIP base
  upload,    \* of each worker: [at, image, next, highest], or NoUpload; and erased,
             \* history: the sectors it has erased
  mixed,     \* history: workers whose slot another upload has touched
  short,     \* history: workers whose UF2 file ended early
  strayed,   \* history: workers with a block in a sector they had not erased
  overran,   \* history: a block of this boot lay beyond the slot it was for
  booted     \* history: the last restart: [whole, excused]

firmwareVars == <<flash, running, remapped, upload, mixed, short, strayed, overran, booted>>

Pages == 0 .. PROTECTED - 1
SlotPages(slot) == IF slot = SLOT_B THEN SLOT_B .. PROTECTED - 1 ELSE 0 .. SLOT_B - 1
ERASED == <<>>
JUNK == <<"junk">>
RUNNING == <<"running">>

(* What a slot held before this boot is only told apart as the code that   *)
(* runs, and as data that cannot be written over.                          *)
AfterBoot(slot) == [p \in Pages |-> IF p \in SlotPages(slot) THEN RUNNING ELSE JUNK]

NoUpload == [at |-> "none", image |-> [name |-> "", format |-> "raw", good |-> FALSE, pages |-> <<>>],
             next |-> 0, highest |-> -1, erased |-> {}]

FirmwareInit ==
  /\ running \in {0, SLOT_B} /\ remapped \in BOOLEAN /\ flash = AfterBoot(running)
  /\ upload = [w \in Uploaders |-> NoUpload]
  /\ mixed = {} /\ short = {} /\ strayed = {} /\ overran = FALSE
  /\ booted = [whole |-> TRUE, excused |-> FALSE]

(* Where the program counter is. *)
pc == IF remapped THEN 0 ELSE running

ota_target_slot == IF pc < SLOT_B THEN SLOT_B ELSE 0

max_size == IF ota_target_slot = SLOT_B THEN PROTECTED - SLOT_B ELSE SLOT_B

content_length(i) == IF i.format = "uf2" THEN 2 * Len(i.pages) ELSE Len(i.pages)

num_sectors(i) == (content_length(i) + SECTOR - 1) \div SECTOR

(* A block may be for any place: only PROTECTED bounds it. *)
ASSUME ImagesAssumption == \A i \in Images : i.pages \in Seq(Nat)

-----------------------------------------------------------------------------
(* NOR flash. *)
Erased(f, pages) == [p \in Pages |-> IF p \in pages THEN ERASED ELSE f[p]]

Programmed(old, x) == IF old \in {ERASED, x} THEN x ELSE JUNK

Written(f, p, x) == [f EXCEPT ![p] = Programmed(@, x)]

Data(w, place) == <<upload[w].image.name, place>>

Set(w, u) == upload' = [upload EXCEPT ![w] = u]

Active == {w \in Uploaders : upload[w].at \notin {"none", "erase"}}

(* A flash operation of w: the uploads that are under way are mixed with it. *)
Touch(w) ==
  mixed' = mixed \cup (Active \ {w}) \cup IF Active \subseteq {w} THEN {} ELSE {w}

-----------------------------------------------------------------------------
(* The web handler refuses an empty or huge file before the update sees it, *)
(* the update one that does not fit its slot.                               *)
HandlerAccepts(i) == content_length(i) # 0 /\ content_length(i) <= MAX_FIRMWARE_SIZE

StartUpload(w) ==
  /\ upload[w].at = "none"
  /\ \E i \in Images :
       /\ HandlerAccepts(i) /\ content_length(i) <= max_size
       /\ Set(w, [NoUpload EXCEPT !.at = "erase", !.image = i])
  /\ mixed' = mixed \ {w} /\ short' = short \ {w} /\ strayed' = strayed \ {w}
  /\ UNCHANGED <<flash, running, remapped, overran, booted>>

(* As many sectors as the file is long, for either format. *)
PreErase(w) ==
  /\ upload[w].at = "erase"
  /\ LET area == ota_target_slot .. ota_target_slot + num_sectors(upload[w].image) * SECTOR - 1
     IN /\ flash' = Erased(flash, area)
        /\ Set(w, [upload[w] EXCEPT !.at = "stream", !.erased = {p \div SECTOR : p \in area}])
  /\ Touch(w)
  /\ UNCHANGED <<running, remapped, short, strayed, overran, booted>>

NextPlace(w) == upload[w].image.pages[upload[w].next + 1]

(* A sector has come and is written, unless the first has no vector table. *)
WriteSector(w) ==
  /\ upload[w].at = "stream" /\ upload[w].image.format = "raw"
  /\ upload[w].image.good
  /\ LET from == upload[w].next
         to == IF from + SECTOR < Len(upload[w].image.pages) THEN from + SECTOR
               ELSE Len(upload[w].image.pages)
     IN /\ from < to
        /\ flash' = [p \in Pages |->
                       IF p \in ota_target_slot + from .. ota_target_slot + to - 1
                       THEN Programmed(flash[p], Data(w, p - ota_target_slot)) ELSE flash[p]]
        /\ Set(w, [upload[w] EXCEPT !.next = to])
  /\ Touch(w)
  /\ UNCHANGED <<running, remapped, short, strayed, overran, booted>>

(* Mutant: the sector of the last block is erased again. *)
sector_num_erases_again(s, highest) == s >= highest

(* sector_num > highest_erased_sector *)
sector_num_erases(s, highest) == s > highest

(* A UF2 block has come: its sector is erased if it is beyond those that   *)
(* were, and its page is written.  A block of no use ends the upload.      *)
WriteBlock(w) ==
  LET write_addr == ota_target_slot + NextPlace(w)
      sector == write_addr \div SECTOR
      erases == sector_num_erases(sector, upload[w].highest)
  IN
  /\ upload[w].at = "stream" /\ upload[w].image.format = "uf2"
  /\ upload[w].next < Len(upload[w].image.pages)
  /\ upload[w].image.good /\ write_addr + 1 <= PROTECTED
  /\ flash' = Written(IF erases THEN Erased(flash, sector * SECTOR .. (sector + 1) * SECTOR - 1) ELSE flash,
                      write_addr, Data(w, NextPlace(w)))
  /\ Set(w, [upload[w] EXCEPT !.next = @ + 1, !.highest = IF erases THEN sector ELSE @,
                              !.erased = IF erases THEN @ \cup {sector} ELSE @])
  /\ strayed' = IF erases \/ sector \in upload[w].erased THEN strayed ELSE strayed \cup {w}
  /\ overran' = (overran \/ NextPlace(w) >= max_size)
  /\ Touch(w)
  /\ UNCHANGED <<running, remapped, short, booted>>

Complete(w) == upload[w].next = Len(upload[w].image.pages)

Finish(w) ==
  /\ upload[w].at = "stream" /\ Complete(w)
  /\ Set(w, [upload[w] EXCEPT !.at = "answer"])
  /\ UNCHANGED <<flash, running, remapped, mixed, short, strayed, overran, booted>>

(* The connection closes.  The raw stream is refused; the UF2 stream, once *)
(* its first sector of the file has come, counts as complete.              *)
Close(w) ==
  /\ upload[w].at = "stream" /\ ~Complete(w)
  /\ IF upload[w].image.format = "uf2" /\ 2 * upload[w].next >= SECTOR
     THEN Set(w, [upload[w] EXCEPT !.at = "answer"]) /\ short' = short \cup {w}
     ELSE Set(w, NoUpload) /\ UNCHANGED short
  /\ UNCHANGED <<flash, running, remapped, mixed, strayed, overran, booted>>

(* A flash error, a read error, a block or an image of no use. *)
Fail(w) ==
  /\ upload[w].at \in {"erase", "stream"}
  /\ Set(w, NoUpload)
  /\ UNCHANGED <<flash, running, remapped, mixed, short, strayed, overran, booted>>

(* Where the k-th page of a file belongs: a raw image is in order. *)
Place(i, k) == IF i.format = "uf2" THEN i.pages[k] ELSE k - 1

WholeIn(w) ==
  \A k \in DOMAIN upload[w].image.pages :
    LET place == Place(upload[w].image, k)
    IN ota_target_slot + place \in Pages /\ flash[ota_target_slot + place] = Data(w, place)

(* ota_reboot_into_new_slot, after the answer and a pause. *)
RebootIntoNewSlot(w) ==
  /\ upload[w].at = "answer"
  /\ running' = ota_target_slot
  /\ booted' = [whole |-> WholeIn(w), excused |-> w \in mixed \cup short \cup strayed]
  /\ flash' = AfterBoot(ota_target_slot)
  /\ upload' = [v \in Uploaders |-> NoUpload]
  /\ mixed' = {} /\ short' = {} /\ strayed' = {} /\ overran' = FALSE
  /\ UNCHANGED remapped

FirmwareNext ==
  \E w \in Uploaders :
    \/ StartUpload(w) \/ PreErase(w) \/ WriteSector(w) \/ WriteBlock(w) \/ Finish(w)
    \/ Close(w) \/ Fail(w) \/ RebootIntoNewSlot(w)

FirmwareSpec == FirmwareInit /\ [][FirmwareNext]_firmwareVars

-----------------------------------------------------------------------------
RunningSlotKept == \A p \in SlotPages(running) : flash[p] = RUNNING

(* The device restarts only into a slot that holds every page of one       *)
(* upload, in whatever order its blocks came and whatever was in the slot, *)
(* unless two uploads overlapped, a UF2 file ended early, or one of its    *)
(* blocks fell back into a sector that nothing had erased.  Nothing        *)
(* touches the slot the device runs from if the boot ROM starts it in      *)
(* place and no block lies beyond its slot (ota.rs:84-298, main.rs:326,    *)
(* platform.rs:53-64).                                                     *)
BootsWhole ==
  /\ booted.whole \/ booted.excused
  /\ ~remapped /\ ~overran => RunningSlotKept

(* "OTA always writes to the INACTIVE slot" (ota.rs:8): while no block lies *)
(* beyond its slot, the slot the device runs from stays as it was.  The     *)
(* boot ROM "remaps the target slot to XIP base" (ota.rs:12), so the        *)
(* program counter of slot B is that of slot A.                             *)
InactiveSlotOnly == ~overran => RunningSlotKept
=============================================================================
