------------------------ MODULE MC_LoRaWANMacQueue -------------------------
(* A small instance of LoRaWANMacQueue for TLC.                               *)
EXTENDS LoRaWANMacQueue

MCUserCids  == {LINK_CHECK, DEVICE_TIME}
MCDownlinks == {<<>>, <<LINK_CHECK>>, <<LINK_CHECK, DEVICE_TIME>>, <<LINK_CHECK, DEV_STATUS>>,
                <<RX_TIMING_SETUP, LINK_CHECK>>, <<RX_TIMING_SETUP, DEV_STATUS>>,
                <<LINK_ADR, RX_TIMING_SETUP>>, <<REKEY>>,
                <<LINK_CHECK, DEV_STATUS, DEV_STATUS, DEV_STATUS, DEV_STATUS>>}
=============================================================================
