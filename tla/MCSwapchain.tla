---------------------------- MODULE MCSwapchain ----------------------------
(***************************************************************************)
(* Two images, one paced and one unpaced mode, for TLC.                    *)
(***************************************************************************)
EXTENDS Swapchain

CONSTANTS fifo, immediate, i1, i2

MCImages == {i1, i2}
MCModes  == {fifo, immediate}
MCPaced  == {fifo}
=============================================================================
