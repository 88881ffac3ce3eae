------------------------------ MODULE MCScanLink ------------------------------
EXTENDS ScanLink

MCImage == << 11, 12, 13, 14, 15 >>
LiveImage == << 11, 12 >>
===============================================================================
