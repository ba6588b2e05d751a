---------------------------- MODULE MCDeviceAuth ----------------------------
EXTENDS DeviceAuth, TLC

\* Devices are alike, and so are the slots.
Alike == Permutations(Device) \cup Permutations(Slot)

\* (bound) A client is followed no further than to its keys.
UpToKeys == \A d \in Device : client[d].pc # "keyed"

=============================================================================
