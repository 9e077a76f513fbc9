------------------------ MODULE GlobalDescriptorTable ------------------------
(***************************************************************************)
(* gdt.cpp: a segment's base and limit are packed into the eight bytes of  *)
(* its descriptor, and unpacked by Base() and Limit().                     *)
(***************************************************************************)
EXTENDS Integers

\* What a descriptor holds of a limit: all of it, or its 4 KB pages less one
\* when the last is not a whole one.
Encoded(limit) ==
    IF limit <= 65536 THEN limit
    ELSE IF limit % 4096 # 4095 THEN (limit \div 4096) - 1
    ELSE limit \div 4096

\* The constructor.  target[0] of the code is the first byte, target[1] here;
\* 0x40 and 0xC0 are 64 and 192.
SegmentDescriptor(base, limit, type) ==
    << Encoded(limit) % 256,
       (Encoded(limit) \div 256) % 256,
       base % 256,
       (base \div 256) % 256,
       (base \div 65536) % 256,
       type,
       (IF limit <= 65536 THEN 64 ELSE 192) + ((Encoded(limit) \div 65536) % 16),
       (base \div 16777216) % 256 >>

Base(target) ==
    (256 * ((256 * ((256 * target[8]) + target[5])) + target[4])) + target[3]

StoredLimit(target) ==
    (256 * ((256 * (target[7] % 16)) + target[2])) + target[1]

Limit(target) ==
    IF target[7] \div 64 = 3 THEN (4096 * StoredLimit(target)) + 4095
    ELSE StoredLimit(target)

\* "cannot do that, because we might go beyond the physical limit", "and might
\* have up to 4095 wasted bytes behind the used memory" (the constructor).
LimitTight(limit) ==
    LET packed == Limit(SegmentDescriptor(0, limit, 0))
    IN  packed <= limit /\ limit - packed <= 4095
=============================================================================
