\* Windows shorter than eight seconds, multiples of eight, and others: 15 seconds
\* have buckets of one second.
SPECIFICATION Spec
CONSTANTS
    Windows = {1, 7, 8, 15, 16, 17, 24}
    LastTime = 30
INVARIANTS
    SpanBounded
