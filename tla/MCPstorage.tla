----------------------------- MODULE MCPstorage -----------------------------
(* Small instances of Pstorage for TLC: image pages 0 and 1, settings page 2. *)
EXTENDS Pstorage

Store(first, last, fits) == [op |-> "store", first |-> first, last |-> last, fits |-> fits]
Clear(first, last) == [op |-> "clear", first |-> first, last |-> last, fits |-> FALSE]

\* A packet in each image page, one across both, one too big for the pending buffer.
ImageStores == {Store(0, 0, TRUE), Store(0, 1, TRUE), Store(1, 1, FALSE)}

\* The settings writer's store and clear, and the image page cleared by the DFU start.
SettingsStores == {Store(0, 1, TRUE), Store(1, 1, TRUE), Store(2, 2, TRUE)}
SettingsClear == {Clear(2, 2)}
ImageClears == {Clear(0, 1)}
=============================================================================
