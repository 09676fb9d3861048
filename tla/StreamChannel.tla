--------------------------- MODULE StreamChannel ---------------------------
(***************************************************************************)
(* What a dsp::stream promises its two ends: a channel of capacity one.    *)
(* The writer may publish a frame only when the slot is empty, the reader  *)
(* takes the frame that is in the slot, works on it in place and releases  *)
(* it.  Nothing is lost, repeated or reordered, whatever is stopped and    *)
(* started around the channel.                                             *)
(***************************************************************************)

CONSTANTS Frame,    \* the frames a writer may publish
          None      \* no frame, not a member of Frame

VARIABLES slot,     \* the frame published and not yet released, or None
          taken     \* the frame the reader is working on, or None

chan == <<slot, taken>>

ChanInit == slot = None /\ taken = None

Publish(f) == /\ slot = None
              /\ slot' = f
              /\ UNCHANGED taken

Take == /\ taken = None
        /\ slot # None
        /\ taken' = slot
        /\ UNCHANGED slot

Release == /\ taken # None
           /\ taken' = None
           /\ slot' = None

ChanNext == (\E f \in Frame : Publish(f)) \/ Take \/ Release

ChanSafety == ChanInit /\ [][ChanNext]_chan

=============================================================================
