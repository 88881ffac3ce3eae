------------------------------- MODULE MCDoScan -------------------------------
EXTENDS DoScan

MCImage == << 11, 12, 13, 14, 15, 16 >>
===============================================================================
