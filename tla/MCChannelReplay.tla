-------------------------- MODULE MCChannelReplay --------------------------
EXTENDS ChannelTimeline

CONSTANTS d1, d2

DeviceSymmetry == Permutations(Devices)
=============================================================================
