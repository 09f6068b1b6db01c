----------------------------- MODULE Scancodes -----------------------------
(***************************************************************************)
(* The keyboard layout (kernel/device/vtcon/scancodes.h): virtual keys and *)
(* the table that gives the key of a scancode under each combination of    *)
(* modifiers.  Characters are their ASCII codes.                           *)
(***************************************************************************)
EXTENDS Integers, Sequences

VK_NUL == 0
VK_BS == 8
VK_HT == 9
VK_LF == 10
VK_VT == 11
VK_FF == 12
VK_CR == 13
VK_SP == 32
VK_DEL == 127

VK_LCTL == 233
VK_RCTL == 234
VK_LSHF == 235
VK_RSHF == 236
VK_LALT == 237
VK_RALT == 238
VK_CAPL == 239

VK_F1 == 243
VK_F8 == 250

\* The columns nomod, shift and ctrl of us_scancodes_1, from scancode 0
Nomod ==
  << 0, 27, 49, 50, 51, 52, 53, 54, 55, 56, 57, 48, 45, 61, 8, 9, 113, 119, 101, 114,
     116, 121, 117, 105, 111, 112, 91, 93, 10, 233, 97, 115, 100, 102, 103, 104, 106,
     107, 108, 59, 39, 96, 235, 92, 122, 120, 99, 118, 98, 110, 109, 44, 46, 47, 236, 42,
     237, 32, 239, 243, 244, 245, 246, 247, 248, 249, 250, 251, 252, 240, 241, 55, 56,
     57, 45, 52, 53, 54, 43, 49, 50, 51, 48, 46, 0, 0, 0, 253, 254 >>

Shift ==
  << 0, 27, 33, 64, 35, 36, 37, 94, 38, 42, 40, 41, 95, 43, 8, 242, 81, 87, 69, 82, 84,
     89, 85, 73, 79, 80, 123, 125, 10, 233, 65, 83, 68, 70, 71, 72, 74, 75, 76, 58, 34,
     126, 235, 124, 90, 88, 67, 86, 66, 78, 77, 60, 62, 63, 236, 42, 237, 32, 239, 243,
     244, 245, 246, 247, 248, 249, 250, 251, 252, 240, 241, 55, 56, 57, 45, 52, 53, 54,
     43, 49, 50, 51, 48, 46, 0, 0, 0, 0, 0 >>

Ctrl ==
  << 0, 27, 0, 0, 0, 0, 0, 0, 0, 0, 0, 0, 31, 0, 127, 0, 17, 23, 5, 18, 20, 25, 21, 9,
     15, 16, 27, 29, 13, 233, 1, 19, 4, 6, 7, 8, 10, 11, 12, 0, 0, 0, 235, 28, 26, 24, 3,
     22, 2, 14, 13, 0, 0, 0, 236, 42, 237, 0, 239, 243, 244, 245, 246, 247, 248, 249,
     250, 251, 252, 240, 241, 55, 56, 57, 45, 52, 53, 54, 43, 49, 50, 51, 48, 46, 0, 0,
     0, 0, 0 >>

\* The entry of scancode key under the modifiers mods.  The columns with alt
\* repeat the others but for the digits, the tabulator, F11 and F12; ctrlshift
\* repeats ctrl but for the space bar.
us_scancodes_1(key, mods) ==
  CASE {"ctrl", "shift"} \subseteq mods /\ key = 57 -> VK_SP
    [] "ctrl" \in mods /\ ~("shift" \in mods /\ key = 57) -> Ctrl[key + 1]
    [] "ctrl" \notin mods /\ "shift" \in mods -> Shift[key + 1]
    [] mods = {"alt"} /\ key \in 3 .. 11 -> 49
    [] mods = {"alt"} /\ key = 15 -> VK_VT
    [] mods = {"alt"} /\ key \in {87, 88} -> VK_NUL
    [] OTHER -> Nomod[key + 1]

\* The keys of decode_scancode that come as 0xE0 and a scancode; the two META
\* keys set no virtual key, and neither do scancodes that are not here.
Extended ==
  [k \in {28, 29, 53, 56, 71, 72, 73, 75, 77, 79, 80, 81, 82, 83} |->
     CASE k = 28 -> VK_LF [] k = 29 -> VK_RCTL [] k = 53 -> 47 [] k = 56 -> VK_RALT
       [] k = 71 -> 231 [] k = 72 -> 224 [] k = 73 -> 228 [] k = 75 -> 225 [] k = 77 -> 226
       [] k = 79 -> 232 [] k = 80 -> 227 [] k = 81 -> 229 [] k = 82 -> 230 [] OTHER -> VK_DEL]
=============================================================================
