--------------------------- MODULE MCEepromConfig ---------------------------
(* The header with the bytes the firmware acts on, in their order; rows    *)
(* may be 1 or 2.                                                          *)
EXTENDS EepromConfig, TLC

MCOrder == <<"version_lo", "version_hi", "rows", "mouse_step", "key_maps",
             "key_arrows", "default_keymap">>
MCDefault == [version_lo |-> 4, version_hi |-> 1, rows |-> 2, mouse_step |-> 2,
              key_maps |-> 0, key_arrows |-> 0, default_keymap |-> 255]
MCLeast == [version |-> 0, rows |-> 1, mouse_step |-> 1, key_maps |-> 0, key_arrows |-> 0,
            default_keymap |-> 0]
MCMost == [version |-> 255, rows |-> 2, mouse_step |-> 2, key_maps |-> 255, key_arrows |-> 1,
           default_keymap |-> 255]
(* rows in and out of range and a version to reset the device; an empty    *)
(* line enters 0 for any field.                                            *)
MCTyped == [version |-> {4}, rows |-> {1, 3}, mouse_step |-> {}, key_maps |-> {}, key_arrows |-> {},
            default_keymap |-> {1}]
=============================================================================
