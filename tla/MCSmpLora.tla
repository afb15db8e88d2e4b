----------------------------- MODULE MCSmpLora -----------------------------
(* Responses that fit one uplink, that fill two, and that leave a remainder. *)
EXTENDS SmpLora

MCSizes == {1, 4, 5}
MCPayloads == {0, 2, 3}
============================================================================
